---- MODULE Spec2Model ----
(***************************************************************************)
(* Behavior-tree structural synchronization of UnrealMCPython:             *)
(* MCPythonHelper.cpp (serializer, node lookup, attribute marshaling,      *)
(* graph builder, layout) over one UBehaviorTree document, and             *)
(* MCPythonTcpServer.cpp, the TCP bridge that carries the requests.        *)
(***************************************************************************)
EXTENDS Integers, Sequences, FiniteSets, TLC

VARIABLES
    BTGraph,     \* BehaviorTree->BTGraph: [exists, Nodes], exists FALSE for a null graph
    RootNode,    \* BehaviorTree->RootNode: the compiled live tree, or Null
    dirty,       \* TRUE once MarkPackageDirty ran on the document
    call,        \* the request last served: its operation and arguments
    response,    \* the value that request returned
    build,       \* the run of BuildBehaviorTree in progress: its position and locals
    conn,        \* per accepted connection: the socket, its read task and its processing task
    gameQueue,   \* the processing tasks handed to AsyncTask and not yet started, oldest first
    LogCapture,  \* FMCPythonTcpServer::LogCapture.CapturedLogs
    GLogDevices, \* TRUE while LogCapture is registered with GLog
    TcpListener, \* TRUE while FMCPythonTcpServer::TcpListener is set
    bShouldRun,  \* FMCPythonTcpServer::bShouldRun
    TcpServer,   \* TRUE while FUnrealMCPythonModule::TcpServer holds the server object
    PythonScriptPlugin  \* TRUE when IPythonScriptPlugin::Get() returns the scripting engine

docVars == <<BTGraph, RootNode, dirty, call, response, build>>
bridgeVars == <<conn, gameQueue, LogCapture, GLogDevices, TcpListener, bShouldRun, TcpServer,
                PythonScriptPlugin>>
vars == <<BTGraph, RootNode, dirty, call, response, build,
          conn, gameQueue, LogCapture, GLogDevices, TcpListener, bShouldRun, TcpServer,
          PythonScriptPlugin>>

(***************************************************************************)
(* Bounds of the model.                                                    *)
(***************************************************************************)
\* total cost of a client document handed to BuildBehaviorTree
MaxDocCost == 4
\* connections the listener accepts in one behaviour
MaxConns == 2
\* TCP segments a client splits its request into
MaxSegments == 2
\* length of a serialized envelope, in units a Send call may write separately
EnvelopeSize == 2

Null == [null |-> TRUE]

Range(s) == {s[i] : i \in 1..Len(s)}

RECURSIVE SumSeq(_)
SumSeq(s) == IF s = <<>> THEN 0 ELSE Head(s) + SumSeq(Tail(s))

(***************************************************************************)
(* Type registry: the UClass objects TObjectIterator<UClass> visits.       *)
(***************************************************************************)
ClassTable ==
    << [name |-> "Object",                    super |-> "",                abstract |-> FALSE],
       [name |-> "BTNode",                    super |-> "Object",          abstract |-> TRUE],
       [name |-> "BTCompositeNode",           super |-> "BTNode",          abstract |-> TRUE],
       [name |-> "BTTaskNode",                super |-> "BTNode",          abstract |-> TRUE],
       [name |-> "BTAuxiliaryNode",           super |-> "BTNode",          abstract |-> TRUE],
       [name |-> "BTDecorator",               super |-> "BTAuxiliaryNode", abstract |-> TRUE],
       [name |-> "BTService",                 super |-> "BTAuxiliaryNode", abstract |-> TRUE],
       [name |-> "BTComposite_Selector",      super |-> "BTCompositeNode", abstract |-> FALSE],
       [name |-> "BTComposite_SimpleParallel", super |-> "BTCompositeNode", abstract |-> FALSE],
       [name |-> "BTTask_Wait",               super |-> "BTTaskNode",      abstract |-> FALSE],
       [name |-> "BTTask_RunBehavior",        super |-> "BTTaskNode",      abstract |-> FALSE],
       [name |-> "BTDecorator_Loop",          super |-> "BTDecorator",     abstract |-> FALSE],
       [name |-> "BTDecorator_Cooldown",      super |-> "BTDecorator",     abstract |-> FALSE],
       [name |-> "BTService_DefaultFocus",    super |-> "BTService",       abstract |-> FALSE] >>

NoClass == ""

ClassNames == {ClassTable[i].name : i \in 1..Len(ClassTable)}

\* UClass::GetSuperClass, NoClass above the top class
ClassIndex == [c \in ClassNames |-> CHOOSE i \in 1..Len(ClassTable) : ClassTable[i].name = c]

GetSuperClass == [c \in ClassNames |-> ClassTable[ClassIndex[c]].super]

\* the classes on the super chain of a class, the class itself included
RECURSIVE SuperChain(_)
SuperChain(cls) ==
    IF cls = NoClass THEN {} ELSE {cls} \cup SuperChain(GetSuperClass[cls])

Ancestry == [c \in ClassNames |-> SuperChain(c)]

\* UClass::IsChildOf: cls is base or derives from it
IsChildOf(cls, base) == cls \in ClassNames /\ base \in Ancestry[cls]

\* CheckClassAncestor: walk the super chain comparing names
CheckClassAncestor(NodeClass, AncestorName) ==
    NodeClass \in ClassNames /\ AncestorName \in Ancestry[NodeClass]

\* the classes FindBTNodeClass accepts: concrete descendants of UBTNode
ConcreteNodeClasses ==
    {ClassTable[i].name : i \in {i \in 1..Len(ClassTable) :
                                    /\ IsChildOf(ClassTable[i].name, "BTNode")
                                    /\ ~ClassTable[i].abstract}}

\* FindBTNodeClass: the class of that name that is a concrete UBTNode
FindBTNodeClass(ClassName) ==
    IF ClassName \in ConcreteNodeClasses THEN ClassName ELSE NoClass

(***************************************************************************)
(* Attribute introspection: the FProperty list of a node class, and the    *)
(* text export / import of one property value.  A text is a sequence of    *)
(* tokens.  Float values are kept in tenths (25 is 2.5).                   *)
(***************************************************************************)
OwnProps(cls) ==
    CASE cls = "BTNode"               -> << [name |-> "NodeName",    type |-> "String",  edit |-> TRUE],
                                             [name |-> "TreeAsset",   type |-> "Object",  edit |-> FALSE] >>
      [] cls = "BTService"            -> << [name |-> "Interval",    type |-> "Float",   edit |-> TRUE] >>
      [] cls = "BTTask_Wait"          -> << [name |-> "WaitTime",    type |-> "Wrapped", edit |-> TRUE] >>
      [] cls = "BTDecorator_Cooldown" -> << [name |-> "CoolDownTime", type |-> "Float",  edit |-> TRUE] >>
      [] OTHER                        -> << >>

\* TFieldIterator<FProperty>(Class): own properties, then the super classes'
RECURSIVE PropsOnChain(_)
PropsOnChain(cls) ==
    IF cls = NoClass THEN << >> ELSE OwnProps(cls) \o PropsOnChain(GetSuperClass[cls])

ClassPropsTable == [c \in ClassNames |-> PropsOnChain(c)]

ClassProps(cls) == ClassPropsTable[cls]

PropertyNames == [c \in ClassNames |-> {ClassProps(c)[i].name : i \in 1..Len(ClassProps(c))}]

PropertyByName ==
    [c \in ClassNames |->
        [k \in PropertyNames[c] |->
            ClassProps(c)[CHOOSE i \in 1..Len(ClassProps(c)) :
                             /\ ClassProps(c)[i].name = k
                             /\ \A j \in 1..(i - 1) : ClassProps(c)[j].name # k]]]

\* UClass::FindPropertyByName
FindPropertyByName(cls, key) ==
    IF key \in PropertyNames[cls] THEN PropertyByName[cls][key] ELSE Null

ObjectValues == {0, 1}

FloatText(v) ==
    CASE v = 0  -> "0.000000"
      [] v = 25 -> "2.500000"
      [] v = 50 -> "5.000000"

\* the texts the float importer reads, with the value each stands for
FloatParse ==
    [t \in {"0.000000", "0", "0.0", "2.500000", "2.5", "5.000000", "5", "5.0"} |->
        CASE t \in {"0.000000", "0", "0.0"} -> 0
          [] t \in {"2.500000", "2.5"}      -> 25
          [] t \in {"5.000000", "5", "5.0"} -> 50]

ObjectText(v) == IF v = 0 THEN "None" ELSE "/Game/AI/BT_Sub.BT_Sub"

\* a text read as one string
RECURSIVE Join(_)
Join(text) == IF text = << >> THEN "" ELSE Head(text) \o Join(Tail(text))

\* the value a fresh object holds in a property of that type
DefaultOf(type) == IF type = "String" THEN "" ELSE 0

\* FProperty::ExportText_Direct
ExportText(type, v) ==
    CASE type = "Float"   -> << FloatText(v) >>
      [] type = "String"  -> << v >>
      [] type = "Object"  -> << ObjectText(v) >>
      [] type = "Wrapped" -> << "(DefaultValue=", FloatText(v), ")" >>

ParseFail == [ok |-> FALSE, v |-> 0]

\* FProperty::ImportText_Direct: the value the text denotes, or a failure
ImportText(type, text) ==
    CASE type = "String" -> [ok |-> TRUE, v |-> Join(text)]
      [] type = "Float" ->
            IF Len(text) = 1 /\ text[1] \in DOMAIN FloatParse
            THEN [ok |-> TRUE, v |-> FloatParse[text[1]]] ELSE ParseFail
      [] type = "Object" ->
            IF Len(text) = 1 /\ \E v \in ObjectValues : ObjectText(v) = text[1]
            THEN [ok |-> TRUE, v |-> CHOOSE v \in ObjectValues : ObjectText(v) = text[1]]
            ELSE ParseFail
      [] type = "Wrapped" ->
            IF /\ Len(text) = 3
               /\ text[1] = "(DefaultValue="
               /\ text[3] = ")"
               /\ text[2] \in DOMAIN FloatParse
            THEN [ok |-> TRUE, v |-> FloatParse[text[2]]] ELSE ParseFail

\* the struct of a "Wrapped" property has a field named DefaultValue
StructHasDefaultValue(type) == type = "Wrapped"

\* NewObject<UBTNode>(BT, Class): a node of that class with default attributes
DefaultProps ==
    [c \in ClassNames |-> [k \in PropertyNames[c] |-> DefaultOf(PropertyByName[c][k].type)]]

NewObject(cls, objName) ==
    [Class |-> cls, Name |-> objName, Props |-> DefaultProps[cls]]

(***************************************************************************)
(* JSON values.  An object is a function from its field names; a property  *)
(* value is [type, v]: a String holds a text, a Number tenths, a Boolean   *)
(* a BOOLEAN, anything else is type "Null".                                *)
(***************************************************************************)
HasField(obj, f) == f \in DOMAIN obj

\* FString::SanitizeFloat
SanitizeFloat(n) ==
    CASE n = 0  -> "0.0"
      [] n = 25 -> "2.5"
      [] n = 50 -> "5.0"

\* SetBTNodeProperties: the text decoded from one JSON value, << >> if skipped
DecodeValue(val) ==
    CASE val.type = "String"  -> [ok |-> TRUE, text |-> val.v]
      [] val.type = "Number"  -> [ok |-> TRUE, text |-> << SanitizeFloat(val.v) >>]
      [] val.type = "Boolean" -> [ok |-> TRUE, text |-> << IF val.v THEN "true" ELSE "false" >>]
      [] OTHER                -> [ok |-> FALSE, text |-> << >>]

\* an import that hands the decoded text over as it is
ImportArgumentVerbatim(prop, text) == text

\* SetBTNodeProperties: the text handed to ImportText_Direct
ImportArgument(prop, text) ==
    IF StructHasDefaultValue(prop.type)
    THEN << "(DefaultValue=" >> \o text \o << ")" >>
    ELSE text

SetOneProperty(Node, key, val) ==
    LET Prop == FindPropertyByName(Node.Class, key)
    IN  IF Prop = Null THEN Node
        ELSE IF ~DecodeValue(val).ok THEN Node
        ELSE LET got == ImportText(Prop.type, ImportArgument(Prop, DecodeValue(val).text))
             IN  IF got.ok THEN [Node EXCEPT !.Props[key] = got.v] ELSE Node

\* the keys of a JSON object in the order the loop visits them
RECURSIVE KeyOrder(_)
KeyOrder(keys) ==
    IF keys = {} THEN << >>
    ELSE LET k == CHOOSE k \in keys : TRUE IN << k >> \o KeyOrder(keys \ {k})

RECURSIVE SetPropsLoop(_, _, _)
SetPropsLoop(Node, PropertiesObj, keys) ==
    IF keys = << >> THEN Node
    ELSE SetPropsLoop(SetOneProperty(Node, Head(keys), PropertiesObj[Head(keys)]),
                      PropertiesObj, Tail(keys))

SetBTNodeProperties(Node, PropertiesObj) ==
    SetPropsLoop(Node, PropertiesObj, KeyOrder(DOMAIN PropertiesObj))

\* the properties flagged CPF_Edit
EditableNames == [c \in ClassNames |-> {k \in PropertyNames[c] : PropertyByName[c][k].edit}]

\* GetBehaviorTreeNodeDetails: the "properties" object of one node
ExportProperties(Node) ==
    [k \in EditableNames[Node.Class] |->
        [type |-> "String", v |-> ExportText(PropertyByName[Node.Class][k].type, Node.Props[k])]]

(***************************************************************************)
(* The visual graph.  A graph node: Kind (its UBehaviorTreeGraphNode       *)
(* subclass), NodeInstance, the Decorators and Services sub-node lists     *)
(* (each entry is the sub-node's NodeInstance), Pins, and its position.    *)
(* A pin's LinkedTo lists the indices in Nodes of the nodes it links to.   *)
(***************************************************************************)
InputPin == [Direction |-> "Input", LinkedTo |-> << >>]
OutputPin == [Direction |-> "Output", LinkedTo |-> << >>]

\* AllocateDefaultPins of each graph node class
DefaultPins(Kind) ==
    CASE Kind = "Root"           -> << OutputPin >>
      [] Kind = "Composite"      -> << InputPin, OutputPin >>
      [] Kind = "SimpleParallel" -> << InputPin, OutputPin, OutputPin >>
      [] Kind = "Task"           -> << InputPin >>
      [] Kind = "SubtreeTask"    -> << InputPin >>

\* FGraphNodeCreator<T>::CreateNode + Finalize
NewGraphNode(Kind) ==
    [ Kind         |-> Kind,
      NodeInstance |-> Null,
      Decorators   |-> << >>,
      Services     |-> << >>,
      Pins         |-> DefaultPins(Kind),
      NodePosX     |-> 0,
      NodePosY     |-> 0 ]

\* FindGraphPin: index of the first pin of that direction, 0 for nullptr
FindGraphPin(Node, Direction) ==
    LET hits == {i \in 1..Len(Node.Pins) : Node.Pins[i].Direction = Direction}
    IN  IF hits = {} THEN 0 ELSE CHOOSE i \in hits : \A j \in hits : i <= j

\* UEdGraphPin::MakeLinkTo between pin fromPin of node from and pin toPin of node to
MakeLinkTo(Nodes, from, fromPin, to, toPin) ==
    [Nodes EXCEPT ![from].Pins[fromPin].LinkedTo = Append(@, to),
                  ![to].Pins[toPin].LinkedTo = Append(@, from)]

\* the name NewObject gives the n-th object a call creates
ObjectName(cls, n) == cls \o "_" \o ToString(n)

\* the graph node class CreateBTGraphNodeRecursive picks for a node class
KindOfClass(NodeClass) ==
    LET bIsComposite == IsChildOf(NodeClass, "BTCompositeNode")
        bIsTask == IsChildOf(NodeClass, "BTTaskNode")
        bIsSimpleParallel == CheckClassAncestor(NodeClass, "BTComposite_SimpleParallel")
        bIsSubtreeTask == \/ CheckClassAncestor(NodeClass, "BTTask_RunBehavior")
                          \/ CheckClassAncestor(NodeClass, "BTTask_RunBehaviorDynamic")
    IN  IF bIsSimpleParallel THEN "SimpleParallel"
        ELSE IF bIsComposite THEN "Composite"
        ELSE IF bIsSubtreeTask THEN "SubtreeTask"
        ELSE IF bIsTask THEN "Task"
        ELSE "Unsupported"

KindTable == [c \in ClassNames |-> KindOfClass(c)]

GraphNodeKind(NodeClass) == KindTable[NodeClass]

\* sub-node loops that attach every entry whose class resolves, whatever its base
RECURSIVE AddSubNodesOfAnyBase(_, _, _, _, _)
AddSubNodesOfAnyBase(B, id, arr, base, list) ==
    IF arr = << >> THEN B
    ELSE IF ~HasField(Head(arr), "class") \/ FindBTNodeClass(Head(arr).class) = NoClass
    THEN AddSubNodesOfAnyBase(B, id, Tail(arr), base, list)
    ELSE AddSubNodesOfAnyBase(
             [B EXCEPT !.Nodes[id][list] =
                           Append(@, NewObject(FindBTNodeClass(Head(arr).class),
                                               ObjectName(FindBTNodeClass(Head(arr).class), B.nobj))),
                       !.nobj = @ + 1],
             id, Tail(arr), base, list)

\* the decorators / services loops of CreateBTGraphNodeRecursive: B is the
\* builder's state [Nodes, nobj], id the graph node being built
RECURSIVE AddSubNodes(_, _, _, _, _)
AddSubNodes(B, id, arr, base, list) ==
    IF arr = << >> THEN B
    ELSE LET Obj == Head(arr)
             Cls == IF HasField(Obj, "class") THEN FindBTNodeClass(Obj.class) ELSE NoClass
         IN  IF ~HasField(Obj, "class") \/ Cls = NoClass \/ ~IsChildOf(Cls, base)
             THEN AddSubNodes(B, id, Tail(arr), base, list)
             ELSE LET Fresh == NewObject(Cls, ObjectName(Cls, B.nobj))
                      Runtime == IF HasField(Obj, "properties")
                                 THEN SetBTNodeProperties(Fresh, Obj.properties)
                                 ELSE Fresh
                      B1 == [B EXCEPT !.Nodes[id][list] = Append(@, Runtime),
                                      !.nobj = @ + 1]
                  IN  AddSubNodes(B1, id, Tail(arr), base, list)

RECURSIVE CreateBTGraphNodeRecursive(_, _)
RECURSIVE CreateChildren(_, _, _, _)

\* an array field of a record, empty when the record has no such field
ArrayField(JsonNode, f) == IF HasField(JsonNode, f) THEN JsonNode[f] ELSE << >>

\* one pass of the children loop: r is what the recursive call returned
LinkChild(r, id, OutPin) ==
    IF r.node # 0 /\ FindGraphPin(r.B.Nodes[r.node], "Input") # 0
    THEN [r.B EXCEPT !.Nodes = MakeLinkTo(@, id, OutPin, r.node,
                                           FindGraphPin(r.B.Nodes[r.node], "Input"))]
    ELSE r.B

\* a children loop that gives up at the first entry that does not build
CreateChildrenUntilFailure(B, id, OutPin, ChildrenArr) ==
    IF ChildrenArr = << >> \/ ~HasField(Head(ChildrenArr), "node_class") THEN B
    ELSE IF FindBTNodeClass(Head(ChildrenArr).node_class) = NoClass THEN B
    ELSE CreateChildren(LinkChild(CreateBTGraphNodeRecursive(B, Head(ChildrenArr)), id, OutPin),
                        id, OutPin, Tail(ChildrenArr))

\* the children loop of CreateBTGraphNodeRecursive
CreateChildren(B, id, OutPin, ChildrenArr) ==
    IF ChildrenArr = << >> THEN B
    ELSE CreateChildren(LinkChild(CreateBTGraphNodeRecursive(B, Head(ChildrenArr)), id, OutPin),
                        id, OutPin, Tail(ChildrenArr))

\* the runtime node: NewObject, then its properties if the record has any
RuntimeNode(B, JsonNode, NodeClass) ==
    IF HasField(JsonNode, "properties")
    THEN SetBTNodeProperties(NewObject(NodeClass, ObjectName(NodeClass, B.nobj)),
                             JsonNode.properties)
    ELSE NewObject(NodeClass, ObjectName(NodeClass, B.nobj))

\* the graph node of the record's kind, holding the runtime node, added to the graph
AddGraphNode(B, JsonNode, NodeClass) ==
    [ Nodes |-> Append(B.Nodes, [NewGraphNode(GraphNodeKind(NodeClass))
                                    EXCEPT !.NodeInstance = RuntimeNode(B, JsonNode, NodeClass)]),
      nobj  |-> B.nobj + 1 ]

\* a builder that creates the children of a record of any class
PopulateGraphNodeOfAnyClass(B1, id, JsonNode, NodeClass) ==
    CreateChildren(
        AddSubNodes(AddSubNodes(B1, id, ArrayField(JsonNode, "decorators"),
                                "BTDecorator", "Decorators"),
                    id, ArrayField(JsonNode, "services"), "BTService", "Services"),
        id,
        IF FindGraphPin(B1.Nodes[id], "Output") # 0
        THEN FindGraphPin(B1.Nodes[id], "Output") ELSE 1,
        ArrayField(JsonNode, "children"))

\* decorators, services, then children (only under a composite with an output pin)
PopulateGraphNode(B1, id, JsonNode, NodeClass) ==
    CreateChildren(
        AddSubNodes(AddSubNodes(B1, id, ArrayField(JsonNode, "decorators"),
                                "BTDecorator", "Decorators"),
                    id, ArrayField(JsonNode, "services"), "BTService", "Services"),
        id,
        FindGraphPin(B1.Nodes[id], "Output"),
        IF /\ IsChildOf(NodeClass, "BTCompositeNode")
           /\ FindGraphPin(B1.Nodes[id], "Output") # 0
        THEN ArrayField(JsonNode, "children")
        ELSE << >>)

\* CreateBTGraphNodeRecursive once the class is resolved
CreateOfClass(B, JsonNode, NodeClass) ==
    IF NodeClass = NoClass THEN [B |-> B, node |-> 0]
    ELSE IF GraphNodeKind(NodeClass) = "Unsupported"
    THEN [B |-> [B EXCEPT !.nobj = @ + 1], node |-> 0]
    ELSE [ B    |-> PopulateGraphNode(AddGraphNode(B, JsonNode, NodeClass),
                                      Len(B.Nodes) + 1, JsonNode, NodeClass),
           node |-> Len(B.Nodes) + 1 ]

\* returns [B |-> builder state, node |-> index of the graph node, 0 for nullptr]
CreateBTGraphNodeRecursive(B, JsonNode) ==
    IF ~HasField(JsonNode, "node_class") THEN [B |-> B, node |-> 0]
    ELSE CreateOfClass(B, JsonNode, FindBTNodeClass(JsonNode.node_class))

(***************************************************************************)
(* Layout.  Positions are exact in float for the widths reached here, so   *)
(* the arithmetic is done on integers.                                     *)
(***************************************************************************)
NodeWidth == 280
YStep == 200
SubNodeRowHeight == 60
HorizontalGap == 40
LeafWidth == 320

\* the nodes linked from a node's output pins, pin by pin, in link order
LinkedChildren(Node) ==
    LET outs == SelectSeq(Node.Pins, LAMBDA p : p.Direction = "Output")
        RECURSIVE cat(_)
        cat(ps) == IF ps = << >> THEN << >> ELSE Head(ps).LinkedTo \o cat(Tail(ps))
    IN  cat(outs)

\* a leaf count without the floor of 1
RECURSIVE CountLinkedOnly(_, _)
CountLinkedOnly(Nodes, id) ==
    LET kids == LinkedChildren(Nodes[id])
    IN  SumSeq([i \in 1..Len(kids) |-> CountLinkedOnly(Nodes, kids[i])])

RECURSIVE CountSubtreeLeaves(_, _)
CountSubtreeLeaves(Nodes, id) ==
    LET kids == LinkedChildren(Nodes[id])
        Total == SumSeq([i \in 1..Len(kids) |-> CountSubtreeLeaves(Nodes, kids[i])])
    IN  IF Total > 1 THEN Total ELSE 1

RECURSIVE LayoutBTGraphNodes(_, _, _, _, _)
RECURSIVE LayoutChildren(_, _, _, _)

\* a loop that leaves ChildX where it is
LayoutChildrenStacked(Nodes, kids, ChildX, ChildY) ==
    IF kids = << >> THEN Nodes
    ELSE LET Child == Head(kids)
             ChildWidth == CountSubtreeLeaves(Nodes, Child) * (NodeWidth + HorizontalGap)
             placed == LayoutBTGraphNodes(Nodes, Child, ChildX, ChildWidth, ChildY)
         IN  LayoutChildren(placed, Tail(kids), ChildX, ChildY)

\* the loop over the linked children: ChildX advances by each child's width
LayoutChildren(Nodes, kids, ChildX, ChildY) ==
    IF kids = << >> THEN Nodes
    ELSE LET Child == Head(kids)
             ChildLeaves == CountSubtreeLeaves(Nodes, Child)
             ChildWidth == ChildLeaves * (NodeWidth + HorizontalGap)
             placed == LayoutBTGraphNodes(Nodes, Child, ChildX, ChildWidth, ChildY)
         IN  LayoutChildren(placed, Tail(kids), ChildX + ChildWidth, ChildY)

\* a layout that puts a node at the left edge of its allocation
LayoutBTGraphNodesLeftAligned(Nodes, id, LeftX, Width, Y) ==
    LayoutChildren([Nodes EXCEPT ![id].NodePosX = LeftX, ![id].NodePosY = Y],
                   LinkedChildren(Nodes[id]), LeftX,
                   Y + YStep + (Len(Nodes[id].Decorators) + Len(Nodes[id].Services))
                                   * SubNodeRowHeight)

LayoutBTGraphNodes(Nodes, id, LeftX, Width, Y) ==
    LET Node == Nodes[id]
        placed == [Nodes EXCEPT ![id].NodePosX = LeftX + (Width \div 2) - (NodeWidth \div 2),
                                ![id].NodePosY = Y]
        SubNodeHeight == (Len(Node.Decorators) + Len(Node.Services)) * SubNodeRowHeight
    IN  LayoutChildren(placed, LinkedChildren(Node), LeftX, Y + YStep + SubNodeHeight)

(***************************************************************************)
(* The compiler, UBehaviorTreeGraph::UpdateAsset: the live tree of the     *)
(* graph.  A live composite or task is its NodeInstance with Services and  *)
(* Children; a child-slot is [ChildComposite, ChildTask, Decorators].      *)
(* The children of a pin are taken in ascending NodePosX.                  *)
(***************************************************************************)
RECURSIVE InsertByX(_, _, _)
InsertByX(Nodes, sorted, id) ==
    IF sorted = << >> THEN << id >>
    ELSE IF Nodes[id].NodePosX < Nodes[Head(sorted)].NodePosX THEN << id >> \o sorted
    ELSE << Head(sorted) >> \o InsertByX(Nodes, Tail(sorted), id)

RECURSIVE SortByX(_, _)
SortByX(Nodes, ids) ==
    IF ids = << >> THEN << >>
    ELSE InsertByX(Nodes, SortByX(Nodes, SubSeq(ids, 1, Len(ids) - 1)), ids[Len(ids)])

\* the children of a graph node in the order the compiler visits them
CompiledChildOrder(Nodes, id) ==
    LET outs == SelectSeq(Nodes[id].Pins, LAMBDA p : p.Direction = "Output")
        RECURSIVE cat(_)
        cat(ps) == IF ps = << >> THEN << >>
                   ELSE SortByX(Nodes, Head(ps).LinkedTo) \o cat(Tail(ps))
    IN  cat(outs)

RECURSIVE CompileNode(_, _)
CompileNode(Nodes, id) ==
    LET Node == Nodes[id]
        Inst == Node.NodeInstance
        kids == CompiledChildOrder(Nodes, id)
        Slot(c) ==
            LET isComp == IsChildOf(Nodes[c].NodeInstance.Class, "BTCompositeNode")
            IN  [ ChildComposite |-> IF isComp THEN CompileNode(Nodes, c) ELSE Null,
                  ChildTask      |-> IF isComp THEN Null ELSE CompileNode(Nodes, c),
                  Decorators     |-> Nodes[c].Decorators ]
    IN  [ Class    |-> Inst.Class,
          Name     |-> Inst.Name,
          Props    |-> Inst.Props,
          Services |-> Node.Services,
          Children |-> [i \in 1..Len(kids) |-> Slot(kids[i])] ]

\* index of the first UBehaviorTreeGraphNode_Root in Nodes, 0 if none
FindRootGraphNode(Nodes) ==
    LET hits == {i \in 1..Len(Nodes) : Nodes[i].Kind = "Root"}
    IN  IF hits = {} THEN 0 ELSE CHOOSE i \in hits : \A j \in hits : i <= j

\* the RootNode UpdateAsset leaves on the asset
UpdateAsset(Nodes, OldRootNode) ==
    LET r == FindRootGraphNode(Nodes)
    IN  IF r = 0 \/ Nodes[r].Pins[1].LinkedTo = << >> THEN OldRootNode
        ELSE LET top == Nodes[r].Pins[1].LinkedTo[1]
             IN  IF IsChildOf(Nodes[top].NodeInstance.Class, "BTCompositeNode")
                 THEN CompileNode(Nodes, top)
                 ELSE Null

(***************************************************************************)
(* Serializer and lookup over the live tree.                               *)
(***************************************************************************)
\* UBehaviorTreeTypes::GetShortTypeName: the class name after its prefix
ShortTypeName(cls) ==
    CASE cls = "BTComposite_Selector"       -> "Selector"
      [] cls = "BTComposite_SimpleParallel" -> "SimpleParallel"
      [] cls = "BTTask_Wait"                -> "Wait"
      [] cls = "BTTask_RunBehavior"         -> "RunBehavior"
      [] cls = "BTDecorator_Loop"           -> "Loop"
      [] cls = "BTDecorator_Cooldown"       -> "Cooldown"
      [] cls = "BTService_DefaultFocus"     -> "DefaultFocus"
      [] OTHER                              -> cls

\* UBTNode::GetNodeName
GetNodeName(Node) ==
    IF Node.Props.NodeName # "" THEN Node.Props.NodeName ELSE ShortTypeName(Node.Class)

\* UObject::GetName
GetName(Node) == Node.Name

NonNull(list) == SelectSeq(list, LAMBDA n : n # Null)

ClassesOf(list) == [i \in 1..Len(NonNull(list)) |-> NonNull(list)[i].Class]
NamesOf(list) == [i \in 1..Len(NonNull(list)) |-> GetNodeName(NonNull(list)[i])]

RECURSIVE SerializeBTNode(_)

\* a serializer that lists the children last slot first
SerializeLastSlotFirst(Node) ==
    IF Node = Null
    THEN [ NodeName |-> "", NodeClass |-> "",
           DecoratorClasses |-> << >>, DecoratorNames |-> << >>,
           ServiceClasses |-> << >>, ServiceNames |-> << >>, Children |-> << >> ]
    ELSE
    LET ChildInfo(Child) ==
            IF Child.ChildComposite # Null
            THEN [SerializeBTNode(Child.ChildComposite) EXCEPT
                      !.DecoratorClasses = @ \o ClassesOf(Child.Decorators),
                      !.DecoratorNames = @ \o NamesOf(Child.Decorators)]
            ELSE [ NodeName |-> GetNodeName(Child.ChildTask),
                   NodeClass |-> Child.ChildTask.Class,
                   DecoratorClasses |-> ClassesOf(Child.Decorators),
                   DecoratorNames |-> NamesOf(Child.Decorators),
                   ServiceClasses |-> ClassesOf(Child.ChildTask.Services),
                   ServiceNames |-> NamesOf(Child.ChildTask.Services),
                   Children |-> << >> ]
        held == SelectSeq(Node.Children,
                          LAMBDA c : c.ChildComposite # Null \/ c.ChildTask # Null)
    IN  [ NodeName |-> GetNodeName(Node),
          NodeClass |-> Node.Class,
          DecoratorClasses |-> << >>,
          DecoratorNames |-> << >>,
          ServiceClasses |-> ClassesOf(Node.Services),
          ServiceNames |-> NamesOf(Node.Services),
          Children |-> [i \in 1..Len(held) |-> ChildInfo(held[Len(held) + 1 - i])] ]

\* a serializer that puts the decorators of every slot on the parent's record
SerializeDecoratorsOnParent(Node) ==
    IF Node = Null
    THEN [ NodeName |-> "", NodeClass |-> "",
           DecoratorClasses |-> << >>, DecoratorNames |-> << >>,
           ServiceClasses |-> << >>, ServiceNames |-> << >>, Children |-> << >> ]
    ELSE
    LET ChildInfo(Child) ==
            IF Child.ChildComposite # Null
            THEN SerializeBTNode(Child.ChildComposite)
            ELSE [ NodeName |-> GetNodeName(Child.ChildTask),
                   NodeClass |-> Child.ChildTask.Class,
                   DecoratorClasses |-> << >>,
                   DecoratorNames |-> << >>,
                   ServiceClasses |-> ClassesOf(Child.ChildTask.Services),
                   ServiceNames |-> NamesOf(Child.ChildTask.Services),
                   Children |-> << >> ]
        held == SelectSeq(Node.Children,
                          LAMBDA c : c.ChildComposite # Null \/ c.ChildTask # Null)
        RECURSIVE AllDecorators(_)
        AllDecorators(slots) ==
            IF slots = << >> THEN << >>
            ELSE Head(slots).Decorators \o AllDecorators(Tail(slots))
    IN  [ NodeName |-> GetNodeName(Node),
          NodeClass |-> Node.Class,
          DecoratorClasses |-> ClassesOf(AllDecorators(held)),
          DecoratorNames |-> NamesOf(AllDecorators(held)),
          ServiceClasses |-> ClassesOf(Node.Services),
          ServiceNames |-> NamesOf(Node.Services),
          Children |-> [i \in 1..Len(held) |-> ChildInfo(held[i])] ]

\* the children loop of SerializeBTNode appends one record per slot that holds a child
SerializeBTNode(Node) ==
    IF Node = Null
    THEN [ NodeName |-> "", NodeClass |-> "",
           DecoratorClasses |-> << >>, DecoratorNames |-> << >>,
           ServiceClasses |-> << >>, ServiceNames |-> << >>, Children |-> << >> ]
    ELSE
    LET ChildInfo(Child) ==
            IF Child.ChildComposite # Null
            THEN [SerializeBTNode(Child.ChildComposite) EXCEPT
                      !.DecoratorClasses = @ \o ClassesOf(Child.Decorators),
                      !.DecoratorNames = @ \o NamesOf(Child.Decorators)]
            ELSE [ NodeName |-> GetNodeName(Child.ChildTask),
                   NodeClass |-> Child.ChildTask.Class,
                   DecoratorClasses |-> ClassesOf(Child.Decorators),
                   DecoratorNames |-> NamesOf(Child.Decorators),
                   ServiceClasses |-> ClassesOf(Child.ChildTask.Services),
                   ServiceNames |-> NamesOf(Child.ChildTask.Services),
                   Children |-> << >> ]
        held == SelectSeq(Node.Children,
                          LAMBDA c : c.ChildComposite # Null \/ c.ChildTask # Null)
    IN  [ NodeName |-> GetNodeName(Node),
          NodeClass |-> Node.Class,
          DecoratorClasses |-> << >>,
          DecoratorNames |-> << >>,
          ServiceClasses |-> ClassesOf(Node.Services),
          ServiceNames |-> NamesOf(Node.Services),
          Children |-> [i \in 1..Len(held) |-> ChildInfo(held[i])] ]

\* the "decorators" / "services" array BTNodeInfoToJson writes
ModifierArray(Classes, Names) ==
    [i \in 1..Len(Classes) |->
        IF i \in 1..Len(Names)
        THEN [class |-> Classes[i], name |-> Names[i]]
        ELSE [class |-> Classes[i]]]

\* f extended by field k with value v
WithField(f, k, v) == [x \in DOMAIN f \cup {k} |-> IF x = k THEN v ELSE f[x]]

RECURSIVE BTNodeInfoToJson(_)

\* a writer that leaves the "decorators" array out
JsonWithoutDecorators(Info) ==
    LET o1 == [node_name |-> Info.NodeName, node_class |-> Info.NodeClass]
        o3 == IF Len(Info.ServiceClasses) > 0
              THEN WithField(o1, "services",
                             ModifierArray(Info.ServiceClasses, Info.ServiceNames))
              ELSE o1
    IN  IF Len(Info.Children) > 0
        THEN WithField(o3, "children",
                       [i \in 1..Len(Info.Children) |-> BTNodeInfoToJson(Info.Children[i])])
        ELSE o3

BTNodeInfoToJson(Info) ==
    LET o1 == [node_name |-> Info.NodeName, node_class |-> Info.NodeClass]
        o2 == IF Len(Info.DecoratorClasses) > 0
              THEN WithField(o1, "decorators",
                             ModifierArray(Info.DecoratorClasses, Info.DecoratorNames))
              ELSE o1
        o3 == IF Len(Info.ServiceClasses) > 0
              THEN WithField(o2, "services",
                             ModifierArray(Info.ServiceClasses, Info.ServiceNames))
              ELSE o2
    IN  IF Len(Info.Children) > 0
        THEN WithField(o3, "children",
                       [i \in 1..Len(Info.Children) |-> BTNodeInfoToJson(Info.Children[i])])
        ELSE o3

Matches(Node, Name) == GetNodeName(Node) = Name \/ GetName(Node) = Name

\* the first node of a list that matches, Null if none
FirstMatch(list, Name) ==
    LET hits == {i \in 1..Len(list) : list[i] # Null /\ Matches(list[i], Name)}
    IN  IF hits = {} THEN Null ELSE list[CHOOSE i \in hits : \A j \in hits : i <= j]

RECURSIVE FindNodeByName(_, _)
RECURSIVE FindInChildren(_, _)

\* a children loop that does not look at the services of a task
FindInChildrenButTaskServices(Children, Name) ==
    IF Children = << >> THEN Null
    ELSE LET Child == Head(Children)
             Dec == FirstMatch(Child.Decorators, Name)
             Found == IF Child.ChildComposite # Null
                      THEN FindNodeByName(Child.ChildComposite, Name)
                      ELSE IF Child.ChildTask # Null /\ Matches(Child.ChildTask, Name)
                      THEN Child.ChildTask
                      ELSE Null
         IN  IF Dec # Null THEN Dec
             ELSE IF Found # Null THEN Found
             ELSE FindInChildren(Tail(Children), Name)

\* the children loop of FindNodeByName
FindInChildren(Children, Name) ==
    IF Children = << >> THEN Null
    ELSE LET Child == Head(Children)
             Dec == FirstMatch(Child.Decorators, Name)
             Found == IF Child.ChildComposite # Null
                      THEN FindNodeByName(Child.ChildComposite, Name)
                      ELSE IF Child.ChildTask # Null
                      THEN IF Matches(Child.ChildTask, Name) THEN Child.ChildTask
                           ELSE FirstMatch(Child.ChildTask.Services, Name)
                      ELSE Null
         IN  IF Dec # Null THEN Dec
             ELSE IF Found # Null THEN Found
             ELSE FindInChildren(Tail(Children), Name)

\* a lookup that walks the child-slots from the last to the first
FindNodeByNameLastSlotFirst(Root, Name) ==
    IF Root = Null THEN Null
    ELSE IF Matches(Root, Name) THEN Root
    ELSE IF FirstMatch(Root.Services, Name) # Null THEN FirstMatch(Root.Services, Name)
    ELSE FindInChildren([i \in 1..Len(Root.Children) |->
                            Root.Children[Len(Root.Children) + 1 - i]], Name)

FindNodeByName(Root, Name) ==
    IF Root = Null THEN Null
    ELSE IF Matches(Root, Name) THEN Root
    ELSE IF FirstMatch(Root.Services, Name) # Null THEN FirstMatch(Root.Services, Name)
    ELSE FindInChildren(Root.Children, Name)

(***************************************************************************)
(* The client documents.  Each choice has a cost; a document's cost is the *)
(* sum over its node classes, modifier entries and property objects.       *)
(***************************************************************************)
Str(tokens) == [type |-> "String", v |-> tokens]
Num(n) == [type |-> "Number", v |-> n]
Bool(b) == [type |-> "Boolean", v |-> b]
JsonNull == [type |-> "Null", v |-> 0]

\* a node record without node_class, a modifier entry without class
NoClassNode == [node_name |-> "Unnamed"]
NoClassEntry == [name |-> "Unnamed"]

NodeClassChoices ==
    { [obj |-> [node_class |-> "BTComposite_Selector"],       cost |-> 1, builds |-> TRUE],
      [obj |-> [node_class |-> "BTTask_Wait"],                cost |-> 1, builds |-> TRUE],
      [obj |-> [node_class |-> "Nope"],                       cost |-> 1, builds |-> FALSE],
      [obj |-> NoClassNode,                                   cost |-> 2, builds |-> FALSE],
      [obj |-> [node_class |-> "BTDecorator_Loop"],           cost |-> 2, builds |-> FALSE],
      [obj |-> [node_class |-> "BTComposite_SimpleParallel"], cost |-> 2, builds |-> TRUE],
      [obj |-> [node_class |-> "BTTask_RunBehavior"],         cost |-> 2, builds |-> TRUE] }

ModifierChoices ==
    { [obj |-> [class |-> "BTDecorator_Loop"],       cost |-> 1],
      [obj |-> [class |-> "BTService_DefaultFocus"], cost |-> 1],
      [obj |-> [class |-> "BTDecorator_Cooldown"],   cost |-> 2],
      [obj |-> [class |-> "Nope"],                   cost |-> 2],
      [obj |-> NoClassEntry,                         cost |-> 3] }

PropertyChoices ==
    { [obj |-> [WaitTime |-> Str(<< "2.5" >>)],                         cost |-> 2],
      [obj |-> [NodeName |-> Str(<< "Wait" >>)],                        cost |-> 2],
      [obj |-> [NodeName |-> Str(<< "BTTask_Wait_1" >>)],               cost |-> 3],
      [obj |-> [WaitTime |-> Num(50)],                                  cost |-> 3],
      [obj |-> [WaitTime |-> Str(<< "(DefaultValue=", "2.5", ")" >>)],  cost |-> 3],
      [obj |-> [WaitTime |-> Str(<< "soon" >>)],                        cost |-> 3],
      [obj |-> [WaitTime |-> JsonNull],                                 cost |-> 3],
      [obj |-> [Interval |-> Str(<< "5" >>)],                           cost |-> 3],
      [obj |-> [CoolDownTime |-> Num(25)],                              cost |-> 3],
      [obj |-> [CoolDownTime |-> Bool(TRUE)],                           cost |-> 3],
      [obj |-> [Bogus |-> Str(<< "1" >>)],                              cost |-> 3],
      [obj |-> [TreeAsset |-> Str(<< "/Game/AI/BT_Sub.BT_Sub" >>)],     cost |-> 3] }

\* the property objects of cost p; none at all costs nothing
PropertyObjects(p) == {c.obj : c \in {c \in PropertyChoices : c.cost = p}}

\* an object with its "properties" chosen at cost p
WithProperties(objs, p) ==
    IF p = 0 THEN objs
    ELSE {WithField(o, "properties", q) : o \in objs, q \in PropertyObjects(p)}

\* an object with array field f, left out when the array is empty
WithArray(objs, f, arrays) ==
    {IF a = << >> THEN o ELSE WithField(o, f, a) : o \in objs, a \in arrays}

ModifierEntries(j) ==
    UNION { WithProperties({c.obj : c \in {c \in ModifierChoices : c.cost = m}}, j - m)
            : m \in 1..j }

RECURSIVE ModifierArrays(_)
ModifierArrays(d) ==
    IF d = 0 THEN {<< >>}
    ELSE UNION { {<< e >> \o rest : e \in ModifierEntries(j), rest \in ModifierArrays(d - j)}
                 : j \in 1..d }

RECURSIVE NodeDocs(_)
RECURSIVE ChildArrays(_)

\* the node records of cost c; a record whose class cannot be built carries nothing else
NodeDocs(c) ==
    LET Bare(ok) == {ch \in NodeClassChoices : ch.builds = ok /\ ch.cost <= c}
        Spend == {q \in [p : 0..c, d : 0..c, s : 0..c, k : 0..c, n : 1..c] :
                     q.p + q.d + q.s + q.k + q.n = c}
        Built(q) ==
            WithArray(
              WithArray(
                WithArray(
                  WithProperties({ch.obj : ch \in {ch \in Bare(TRUE) : ch.cost = q.n}}, q.p),
                  "decorators", ModifierArrays(q.d)),
                "services", ModifierArrays(q.s)),
              "children", ChildArrays(q.k))
    IN  {ch.obj : ch \in {ch \in Bare(FALSE) : ch.cost = c}}
        \cup UNION {Built(q) : q \in Spend}

ChildArrays(k) ==
    IF k = 0 THEN {<< >>}
    ELSE UNION { {<< n >> \o rest : n \in NodeDocs(j), rest \in ChildArrays(k - j)}
                 : j \in 1..k }

ClientDocs == UNION {NodeDocs(c) : c \in 1..MaxDocCost}

\* a text that FJsonSerializer::Deserialize rejects
Unparsable == [valid |-> FALSE]
Parsed(obj) == [valid |-> TRUE, obj |-> obj]

(***************************************************************************)
(* The requests.                                                           *)
(***************************************************************************)
Failure(message) == [success |-> FALSE, message |-> message]

\* UEdGraphSchema_BehaviorTree::CreateDefaultNodesForGraph: the root marker
DefaultGraph == [exists |-> TRUE, Nodes |-> << NewGraphNode("Root") >>]
NullGraph == [exists |-> FALSE, Nodes |-> << >>]

\* a root marker left as it was
UnclearedRoot(Node) == Node

\* the loop over RootGraphNode->Pins: BreakAllPinLinks on every pin
RECURSIVE BreakAllPinLinks(_)
BreakAllPinLinks(Pins) ==
    IF Pins = << >> THEN << >>
    ELSE << [Head(Pins) EXCEPT !.LinkedTo = << >>] >> \o BreakAllPinLinks(Tail(Pins))

\* BreakAllPinLinks on every pin, Decorators.Empty(), Services.Empty()
ClearedRoot(Node) ==
    [Node EXCEPT !.Pins = BreakAllPinLinks(Node.Pins),
                 !.Decorators = << >>,
                 !.Services = << >>]

\* connect the root marker to the first child
LinkRoot(Nodes, FirstChild) ==
    IF FindGraphPin(Nodes[1], "Output") # 0 /\ FindGraphPin(Nodes[FirstChild], "Input") # 0
    THEN MakeLinkTo(Nodes, 1, FindGraphPin(Nodes[1], "Output"),
                    FirstChild, FindGraphPin(Nodes[FirstChild], "Input"))
    ELSE Nodes

\* a layout that moves no node
NoLayout(Nodes) == Nodes

\* layout from the root marker over TotalWidth
LaidOut(Nodes) ==
    LayoutBTGraphNodes(Nodes, 1, 0, CountSubtreeLeaves(Nodes, 1) * LeafWidth, 0)

\* UpdateAsset, MarkPackageDirty and the success envelope
Compiled(Nodes, OldRootNode) ==
    [ BTGraph  |-> [exists |-> TRUE, Nodes |-> Nodes],
      RootNode |-> UpdateAsset(Nodes, OldRootNode),
      dirty    |-> TRUE,
      response |-> [ success |-> TRUE,
                     message |-> "Behavior tree built successfully from JSON." ] ]

\* a build that answers success whether or not the top record built
AfterCreateReportingSuccess(built, OldRootNode, OldDirty) ==
    IF built.node = 0
    THEN [ BTGraph |-> [exists |-> TRUE, Nodes |-> built.B.Nodes],
           RootNode |-> OldRootNode, dirty |-> OldDirty,
           response |-> [ success |-> TRUE,
                          message |-> "Behavior tree built successfully from JSON." ] ]
    ELSE Compiled(LaidOut(LinkRoot(built.B.Nodes, built.node)), OldRootNode)

\* BuildBehaviorTree after CreateBTGraphNodeRecursive returned
AfterCreate(built, OldRootNode, OldDirty) ==
    IF built.node = 0
    THEN [ BTGraph |-> [exists |-> TRUE, Nodes |-> built.B.Nodes],
           RootNode |-> OldRootNode, dirty |-> OldDirty,
           response |-> Failure("Failed to create root node from JSON. Check node_class names.") ]
    ELSE Compiled(LaidOut(LinkRoot(built.B.Nodes, built.node)), OldRootNode)

\* a build that leaves the graph nodes of earlier builds in place
BuildInGraphKeepingNodes(G0, OldRootNode, OldDirty, Json) ==
    IF FindRootGraphNode(G0.Nodes) = 0
    THEN [ BTGraph |-> G0, RootNode |-> OldRootNode, dirty |-> OldDirty,
           response |-> Failure("No root node found in BT graph.") ]
    ELSE AfterCreate(
             CreateBTGraphNodeRecursive(
                 [ Nodes |-> [G0.Nodes EXCEPT ![FindRootGraphNode(G0.Nodes)] = ClearedRoot(@)],
                   nobj  |-> 0 ],
                 Json.obj),
             OldRootNode, OldDirty)

\* BuildBehaviorTree on the graph G0 the document has or was given
BuildInGraph(G0, OldRootNode, OldDirty, Json) ==
    IF FindRootGraphNode(G0.Nodes) = 0
    THEN [ BTGraph |-> G0, RootNode |-> OldRootNode, dirty |-> OldDirty,
           response |-> Failure("No root node found in BT graph.") ]
    ELSE AfterCreate(
             CreateBTGraphNodeRecursive(
                 [ Nodes |-> << ClearedRoot(G0.Nodes[FindRootGraphNode(G0.Nodes)]) >>,
                   nobj  |-> 0 ],
                 Json.obj),
             OldRootNode, OldDirty)

\* BuildBehaviorTree: the document and the response it leaves
BuildBehaviorTree(Graph, OldRootNode, OldDirty, Json) ==
    IF ~Json.valid
    THEN [ BTGraph |-> Graph, RootNode |-> OldRootNode, dirty |-> OldDirty,
           response |-> Failure("Failed to parse JSON input.") ]
    ELSE BuildInGraph(IF Graph.exists THEN Graph ELSE DefaultGraph,
                      OldRootNode, OldDirty, Json)

GetBehaviorTreeStructure(Root) ==
    IF Root = Null THEN Failure("Invalid BehaviorTree or empty tree.")
    ELSE [success |-> TRUE, root |-> BTNodeInfoToJson(SerializeBTNode(Root))]

GetBehaviorTreeNodeDetails(Root, NodeName) ==
    IF Root = Null THEN Failure("Invalid BehaviorTree or empty tree.")
    ELSE
    LET FoundNode == FindNodeByName(Root, NodeName)
    IN  IF FoundNode = Null
        THEN Failure("Node '" \o NodeName \o "' not found in behavior tree.")
        ELSE
        LET JsonObj == [ success |-> TRUE,
                         node_name |-> GetNodeName(FoundNode),
                         node_class |-> FoundNode.Class,
                         properties |-> ExportProperties(FoundNode) ]
        IN  IF ~IsChildOf(FoundNode.Class, "BTCompositeNode") THEN JsonObj
            ELSE LET counted == WithField(JsonObj, "child_count", Len(FoundNode.Children))
                     ServicesArr == [i \in 1..Len(NonNull(FoundNode.Services)) |->
                                        [ name |-> GetNodeName(NonNull(FoundNode.Services)[i]),
                                          class |-> NonNull(FoundNode.Services)[i].Class ]]
                 IN  IF Len(ServicesArr) > 0
                     THEN WithField(counted, "services", ServicesArr)
                     ELSE counted

(***************************************************************************)
(* The documents a behaviour starts from: a new asset, an asset without a  *)
(* graph, or an asset holding a tree built earlier.                        *)
(***************************************************************************)
SeedDocs ==
    { [ node_class |-> "BTComposite_Selector",
        services |-> << [class |-> "BTService_DefaultFocus",
                         properties |-> [Interval |-> Str(<< "5" >>)]] >>,
        children |-> << [ node_class |-> "BTTask_Wait",
                          properties |-> [WaitTime |-> Str(<< "2.5" >>)] ] >> ],
      [ node_class |-> "BTComposite_Selector",
        children |-> << [ node_class |-> "BTComposite_Selector",
                          decorators |-> << [class |-> "BTDecorator_Loop"] >>,
                          services |-> << [class |-> "BTService_DefaultFocus"] >>,
                          children |-> << [ node_class |-> "BTTask_Wait",
                                            services |-> << [class |-> "BTService_DefaultFocus"] >> ] >> ],
                        [ node_class |-> "BTTask_RunBehavior",
                          decorators |-> << [class |-> "BTDecorator_Cooldown"],
                                            [class |-> "BTDecorator_Loop"] >> ] >> ] }

\* the document a build leaves
DocumentOf(b) == [BTGraph |-> b.BTGraph, RootNode |-> b.RootNode]

\* no run of BuildBehaviorTree is in progress
NoRun == [pc |-> "idle", RootGraphNode |-> 0, FirstChild |-> 0, UpdateAssetCalls |-> 0]

\* a socket the listener has not accepted yet
NoConnection ==
    [ pc |-> "free", text |-> [valid |-> FALSE], segments |-> 0, unsent |-> 0,
      pending |-> 0, DataSize |-> 0, ReceivedData |-> 0, thread |-> "",
      Data |-> [text |-> [valid |-> FALSE], got |-> 0, of |-> 0],
      Script |-> [ResultMsg |-> << >>, CodeField |-> << >>], Emitted |-> << >>,
      Envelope |-> [none |-> TRUE], TotalSent |-> 0, SendResult |-> "none",
      wire |-> << >>, Closes |-> 0, Destroys |-> 0 ]

\* the server after Start(): listening, nothing accepted
BridgeStarted ==
    /\ conn = [c \in 1..MaxConns |-> NoConnection]
    /\ gameQueue = << >>
    /\ LogCapture = << >>
    /\ GLogDevices = FALSE
    /\ TcpListener = TRUE
    /\ bShouldRun = TRUE
    /\ TcpServer = TRUE

InitialDocuments ==
    { [BTGraph |-> DefaultGraph, RootNode |-> Null],
      [BTGraph |-> NullGraph, RootNode |-> Null] }
    \cup { DocumentOf(BuildBehaviorTree(DefaultGraph, Null, FALSE, Parsed(d))) : d \in SeedDocs }

Init ==
    /\ \E doc \in InitialDocuments :
          /\ BTGraph = doc.BTGraph
          /\ RootNode = doc.RootNode
    /\ dirty = FALSE
    /\ call = [op |-> "none"]
    /\ response = [success |-> TRUE]
    /\ build = NoRun
    /\ BridgeStarted
    /\ PythonScriptPlugin = TRUE

\* the document takes what the build left and the caller its response
Served(b) ==
    /\ BTGraph' = b.BTGraph
    /\ RootNode' = b.RootNode
    /\ dirty' = b.dirty
    /\ response' = b.response

Build(Json, source) ==
    /\ Served(BuildBehaviorTree(BTGraph, RootNode, dirty, Json))
    /\ call' = [op |-> "BuildBehaviorTree", source |-> source, Json |-> Json]
    /\ UNCHANGED build
    /\ UNCHANGED bridgeVars

\* the client's first request sends a document of its own
BuildFromClient ==
    /\ call.op = "none"
    /\ \E Json \in {Unparsable} \cup {Parsed(d) : d \in ClientDocs} : Build(Json, "client")

\* the client sends back the record GetBehaviorTreeStructure returned
BuildFromStructure ==
    /\ call.op = "GetBehaviorTreeStructure"
    /\ response.success
    /\ Build(Parsed(response.root), "structure")

Structure ==
    /\ call.op # "GetBehaviorTreeStructure"
    /\ response' = GetBehaviorTreeStructure(RootNode)
    /\ call' = [op |-> "GetBehaviorTreeStructure"]
    /\ UNCHANGED <<BTGraph, RootNode, dirty, build>>
    /\ UNCHANGED bridgeVars

\* the client asks for the details of a node and then builds a document
\* that carries the class and the properties map it was given
DetailsDocument(Details) ==
    LET entry == [class |-> Details.node_class, properties |-> Details.properties]
        record == [node_class |-> Details.node_class, properties |-> Details.properties]
        selector == [node_class |-> "BTComposite_Selector"]
    IN  IF IsChildOf(Details.node_class, "BTCompositeNode") THEN record
        ELSE IF IsChildOf(Details.node_class, "BTTaskNode")
        THEN WithField(selector, "children", << record >>)
        ELSE IF IsChildOf(Details.node_class, "BTDecorator")
        THEN WithField(selector, "children",
                       << [node_class |-> "BTTask_Wait", decorators |-> << entry >>] >>)
        ELSE WithField(selector, "services", << entry >>)

BuildFromDetails ==
    /\ call.op = "GetBehaviorTreeNodeDetails"
    /\ response.success
    /\ Build(Parsed(DetailsDocument(response)), "details")

\* every node of a live tree: composites, tasks, decorators and services
RECURSIVE LiveNodes(_)
LiveNodes(Node) ==
    IF Node = Null THEN {}
    ELSE {[Class |-> Node.Class, Name |-> Node.Name, Props |-> Node.Props]}
         \cup Range(NonNull(Node.Services))
         \cup UNION { Range(NonNull(Node.Children[i].Decorators))
                      \cup LiveNodes(Node.Children[i].ChildComposite)
                      \cup LiveNodes(Node.Children[i].ChildTask)
                      : i \in 1..Len(Node.Children) }

\* the identity strings a client may ask for: those of the tree and one of no node
KnownNames(Root) ==
    {GetNodeName(n) : n \in LiveNodes(Root)} \cup {GetName(n) : n \in LiveNodes(Root)}
    \cup {"NoSuchNode"}

NodeDetails ==
    /\ \E NodeName \in KnownNames(RootNode) :
          /\ response' = GetBehaviorTreeNodeDetails(RootNode, NodeName)
          /\ call' = [op |-> "GetBehaviorTreeNodeDetails", NodeName |-> NodeName]
    /\ UNCHANGED <<BTGraph, RootNode, dirty, build>>
    /\ UNCHANGED bridgeVars

Next ==
    \/ BuildFromClient
    \/ BuildFromStructure
    \/ BuildFromDetails
    \/ Structure
    \/ NodeDetails

Spec == Init /\ [][Next]_vars

(***************************************************************************)
(* Helpers of the properties below.                                        *)
(***************************************************************************)
\* the last request was a build; BuiltFrom(source) names who wrote its document
IsBuild == call.op = "BuildBehaviorTree"
BuiltFrom(source) == IsBuild /\ call.source = source

\* a record CreateBTGraphNodeRecursive makes a graph node for
Buildable(rec) ==
    /\ HasField(rec, "node_class")
    /\ FindBTNodeClass(rec.node_class) # NoClass
    /\ GraphNodeKind(FindBTNodeClass(rec.node_class)) # "Unsupported"

FieldOr(rec, f) == IF HasField(rec, f) THEN rec[f] ELSE << >>

\* the entries of a record's "children" that build, in array order; none for a task
BuildableChildren(rec) ==
    IF IsChildOf(FindBTNodeClass(rec.node_class), "BTCompositeNode")
    THEN SelectSeq(FieldOr(rec, "children"), Buildable)
    ELSE << >>

\* the live tree without names and attribute values: the type at every
\* position, the services of every node, the decorators of every slot
RECURSIVE Shape(_)
Shape(Node) ==
    IF Node = Null THEN Null
    ELSE [ Class    |-> Node.Class,
           Services |-> ClassesOf(Node.Services),
           Children |-> [i \in 1..Len(Node.Children) |->
                            [ Decorators |-> ClassesOf(Node.Children[i].Decorators),
                              Child |-> IF Node.Children[i].ChildComposite # Null
                                        THEN Shape(Node.Children[i].ChildComposite)
                                        ELSE Shape(Node.Children[i].ChildTask) ]] ]

\* a live tree with two children under one composite, a decorated slot and a service
RichTree(Root) ==
    /\ Root # Null
    /\ Len(Root.Children) >= 2
    /\ \E i \in 1..Len(Root.Children) : Root.Children[i].Decorators # << >>
    /\ \E n \in LiveNodes(Root) : IsChildOf(n.Class, "BTService")

(***************************************************************************)
(* C1.  Round-trip structure: building the record GetBehaviorTreeStructure *)
(* returned for a live tree leaves a live tree with the same number of     *)
(* nodes, the same type at every position, the same child order under      *)
(* every composite and every decorator and service on the same slot/node.  *)
(***************************************************************************)
RoundTripStructure ==
    [][BuildFromStructure => (response'.success /\ Shape(RootNode') = Shape(RootNode))]_vars

RoundTripStructureWitness ==
    /\ BuiltFrom("structure")
    /\ response.success
    /\ RichTree(RootNode)

\* the key/value pairs of the "properties" objects anywhere in a record
RECURSIVE SuppliedProperties(_)
SuppliedProperties(rec) ==
    LET Own(o) == IF HasField(o, "properties")
                  THEN {<<k, o.properties[k]>> : k \in DOMAIN o.properties}
                  ELSE {}
        Of(arr) == UNION {Own(arr[i]) : i \in 1..Len(arr)}
        kids == FieldOr(rec, "children")
    IN  Own(rec) \cup Of(FieldOr(rec, "decorators")) \cup Of(FieldOr(rec, "services"))
        \cup UNION {SuppliedProperties(kids[i]) : i \in 1..Len(kids)}

(***************************************************************************)
(* C2.  Attribute values survive the round trip: after a record has been   *)
(* built into a live tree, the record GetBehaviorTreeStructure returns for *)
(* that tree carries every properties key/value the built record supplied  *)
(* on a node, a decorator or a service.                                    *)
(***************************************************************************)
AttributeValuesSurvive ==
    (IsBuild /\ response.success /\ RootNode # Null) =>
        LET out == GetBehaviorTreeStructure(RootNode)
        IN  /\ out.success
            /\ SuppliedProperties(call.Json.obj) \subseteq SuppliedProperties(out.root)

\* rec is the record of Node and its children are Node's slots, slot by slot
RECURSIVE InSlotOrder(_, _)
InSlotOrder(Node, rec) ==
    LET held == SelectSeq(Node.Children,
                          LAMBDA c : c.ChildComposite # Null \/ c.ChildTask # Null)
        kids == FieldOr(rec, "children")
        Entries(r, f) == [i \in 1..Len(FieldOr(r, f)) |-> FieldOr(r, f)[i].class]
    IN  /\ rec.node_class = Node.Class
        /\ rec.node_name = GetNodeName(Node)
        /\ Len(kids) = Len(held)
        /\ \A i \in 1..Len(held) :
              /\ Entries(kids[i], "decorators") = ClassesOf(held[i].Decorators)
              /\ IF held[i].ChildComposite # Null
                 THEN InSlotOrder(held[i].ChildComposite, kids[i])
                 ELSE /\ kids[i].node_class = held[i].ChildTask.Class
                      /\ kids[i].node_name = GetNodeName(held[i].ChildTask)
                      /\ Entries(kids[i], "services") = ClassesOf(held[i].ChildTask.Services)
                      /\ ~HasField(kids[i], "children")

(***************************************************************************)
(* C3.  Serializer order preservation: in the record                       *)
(* GetBehaviorTreeStructure returns, the children array of every composite *)
(* lists the records of its child-slots in slot order, at every depth.     *)
(***************************************************************************)
SerializerKeepsSlotOrder ==
    (call.op = "GetBehaviorTreeStructure" /\ response.success) =>
        InSlotOrder(RootNode, response.root)

\* a served structure request on a tree whose root has children of two types
SerializerKeepsSlotOrderWitness ==
    /\ call.op = "GetBehaviorTreeStructure"
    /\ response.success
    /\ Len(RootNode.Children) >= 2
    /\ Shape(RootNode).Children[1].Child.Class # Shape(RootNode).Children[2].Child.Class

\* graph node id was built from rec; its linked children follow rec's buildable entries
RECURSIVE AscendingInRecordOrder(_, _, _)
AscendingInRecordOrder(Nodes, id, rec) ==
    LET kids == LinkedChildren(Nodes[id])
        recs == BuildableChildren(rec)
    IN  /\ Len(kids) = Len(recs)
        /\ \A i \in 1..Len(kids) :
              /\ Nodes[kids[i]].NodeInstance.Class = recs[i].node_class
              /\ AscendingInRecordOrder(Nodes, kids[i], recs[i])
        /\ \A i, j \in 1..Len(kids) :
              i < j => Nodes[kids[i]].NodePosX < Nodes[kids[j]].NodePosX

\* the graph node built from the top-level record: the one linked from the root marker
TopGraphNode == BTGraph.Nodes[FindRootGraphNode(BTGraph.Nodes)].Pins[1].LinkedTo[1]

(***************************************************************************)
(* C4.  Layout encodes sibling order: after a successful build, under      *)
(* every graph node the linked children are the buildable entries of the   *)
(* record's children array in array order, and their NodePosX is strictly  *)
(* ascending in that order.                                                *)
(***************************************************************************)
LayoutEncodesSiblingOrder ==
    (IsBuild /\ response.success) =>
        AscendingInRecordOrder(BTGraph.Nodes, TopGraphNode, call.Json.obj)

\* a built record whose top composite has three built children
LayoutEncodesSiblingOrderWitness ==
    /\ IsBuild
    /\ response.success
    /\ Len(LinkedChildren(BTGraph.Nodes[TopGraphNode])) >= 3

\* graph node id is linked to one node per buildable entry of rec, in order
RECURSIVE LinkedToBuildable(_, _, _)
LinkedToBuildable(Nodes, id, rec) ==
    LET kids == LinkedChildren(Nodes[id])
        recs == BuildableChildren(rec)
    IN  /\ [i \in 1..Len(kids) |-> Nodes[kids[i]].NodeInstance.Class]
           = [i \in 1..Len(recs) |-> recs[i].node_class]
        /\ \A i \in 1..Len(kids) : LinkedToBuildable(Nodes, kids[i], recs[i])

\* every graph node but the marker is linked from exactly one node
NoStrayNode(Nodes) ==
    \A n \in 2..Len(Nodes) :
        Cardinality({<<m, i>> \in (1..Len(Nodes)) \X (1..Len(Nodes)) :
                        /\ i <= Len(LinkedChildren(Nodes[m]))
                        /\ LinkedChildren(Nodes[m])[i] = n}) = 1

(***************************************************************************)
(* C5.  Partial failure containment: a record whose children array mixes   *)
(* entries that build with entries whose node_class is missing, unknown or *)
(* of an unsupported kind builds with success:true, and every composite is *)
(* linked to exactly its buildable entries in their relative order.        *)
(***************************************************************************)
PartialFailureContainment ==
    (IsBuild /\ call.Json.valid /\ Buildable(call.Json.obj)) =>
        /\ response.success
        /\ LinkedToBuildable(BTGraph.Nodes, TopGraphNode, call.Json.obj)
        /\ NoStrayNode(BTGraph.Nodes)

\* a built record whose children hold an entry that fails between two that build
PartialFailureContainmentWitness ==
    /\ IsBuild
    /\ call.Json.valid
    /\ Buildable(call.Json.obj)
    /\ \E i, j, k \in 1..Len(FieldOr(call.Json.obj, "children")) :
          /\ i < j /\ j < k
          /\ Buildable(call.Json.obj.children[i])
          /\ ~Buildable(call.Json.obj.children[j])
          /\ Buildable(call.Json.obj.children[k])
    /\ Len(LinkedChildren(BTGraph.Nodes[TopGraphNode])) = 2

\* the request served by this step is a build
Builds == call'.op = "BuildBehaviorTree"

OnlyRootMarker(Graph) ==
    /\ Graph.exists
    /\ Len(Graph.Nodes) = 1
    /\ Graph.Nodes[1].Kind = "Root"
    /\ \A i \in 1..Len(Graph.Nodes[1].Pins) : Graph.Nodes[1].Pins[i].LinkedTo = << >>
    /\ Graph.Nodes[1].Decorators = << >>
    /\ Graph.Nodes[1].Services = << >>

(***************************************************************************)
(* C6.  Root failure: when the top-level record cannot be built (its       *)
(* node_class is missing, unknown or of an unsupported kind) the build     *)
(* answers success:false, the graph holds only the root marker without     *)
(* links or sub-nodes, the live tree is the one compiled before and the    *)
(* document is not marked modified by the call.                            *)
(***************************************************************************)
RootFailureLeavesClearedRoot ==
    [][(Builds /\ call'.Json.valid /\ ~Buildable(call'.Json.obj)) =>
          /\ response' = Failure("Failed to create root node from JSON. Check node_class names.")
          /\ OnlyRootMarker(BTGraph')
          /\ RootNode' = RootNode
          /\ dirty' = dirty]_vars

\* a root failure on a document that held a compiled tree and a populated graph
RootFailureLeavesClearedRootWitness ==
    /\ IsBuild
    /\ call.Json.valid
    /\ ~Buildable(call.Json.obj)
    /\ ~response.success
    /\ RootNode # Null
    /\ ~dirty

(***************************************************************************)
(* C7.  Malformed input aborts before any mutation: when the document is   *)
(* not valid JSON or its top-level node_class is missing, the visual graph *)
(* and the live tree are exactly as they were before the call.             *)
(***************************************************************************)
MalformedInputMutatesNothing ==
    [][(Builds /\ (~call'.Json.valid \/ ~HasField(call'.Json.obj, "node_class"))) =>
          /\ ~response'.success
          /\ BTGraph' = BTGraph
          /\ RootNode' = RootNode]_vars

\* the graph nodes reachable from id over output links, id included
RECURSIVE Reachable(_, _)
Reachable(Nodes, id) ==
    {id} \cup UNION {Reachable(Nodes, LinkedChildren(Nodes[id])[i])
                     : i \in 1..Len(LinkedChildren(Nodes[id]))}

TaskNodes(Nodes, id) ==
    {n \in Reachable(Nodes, id) : Nodes[n].Kind \in {"Task", "SubtreeTask"}}

ChildlessNodes(Nodes, id) ==
    {n \in Reachable(Nodes, id) : LinkedChildren(Nodes[n]) = << >>}

(***************************************************************************)
(* C8 as claimed.  Leaf count: for every graph node, CountSubtreeLeaves is *)
(* the number of Task-classified nodes reachable over output links, and 1  *)
(* where there is none.                                                    *)
(***************************************************************************)
LeafCountIsTaskCount ==
    \A id \in 1..Len(BTGraph.Nodes) :
        CountSubtreeLeaves(BTGraph.Nodes, id)
        = IF TaskNodes(BTGraph.Nodes, id) = {} THEN 1
          ELSE Cardinality(TaskNodes(BTGraph.Nodes, id))

(***************************************************************************)
(* C8 as the code has it.  Leaf count: for every graph node,               *)
(* CountSubtreeLeaves is the number of reachable nodes, the node itself    *)
(* included, that have no output-linked child; it is never less than 1.    *)
(***************************************************************************)
LeafCountIsChildlessCount ==
    \A id \in 1..Len(BTGraph.Nodes) :
        /\ CountSubtreeLeaves(BTGraph.Nodes, id) = Cardinality(ChildlessNodes(BTGraph.Nodes, id))
        /\ CountSubtreeLeaves(BTGraph.Nodes, id) >= 1

\* a built graph with a childless composite beside a task, and a childless root marker
LeafCountIsChildlessCountWitness ==
    /\ IsBuild
    /\ response.success
    /\ \E n \in ChildlessNodes(BTGraph.Nodes, 1) : BTGraph.Nodes[n].Kind = "Composite"
    /\ TaskNodes(BTGraph.Nodes, 1) # {}

\* the nodes of a live tree in the order the lookup visits them
RECURSIVE SearchOrder(_)
SearchOrder(Node) ==
    LET Modifiers(list) == [i \in 1..Len(NonNull(list)) |->
                               [node |-> NonNull(list)[i], modifier |-> TRUE]]
        RECURSIVE Slots(_)
        Slots(Children) ==
            IF Children = << >> THEN << >>
            ELSE LET Child == Head(Children)
                 IN  Modifiers(Child.Decorators)
                     \o (IF Child.ChildComposite # Null THEN SearchOrder(Child.ChildComposite)
                         ELSE IF Child.ChildTask # Null
                         THEN << [node |-> Child.ChildTask, modifier |-> FALSE] >>
                              \o Modifiers(Child.ChildTask.Services)
                         ELSE << >>)
                     \o Slots(Tail(Children))
    IN  << [node |-> Node, modifier |-> FALSE] >>
        \o Modifiers(Node.Services) \o Slots(Node.Children)

(***************************************************************************)
(* C9.  Lookup completeness: every decorator of a child-slot and every     *)
(* service of a composite or task, at any depth, is what FindNodeByName    *)
(* returns for its display name and for its object name, unless a node     *)
(* earlier in the search order carries that string.                        *)
(***************************************************************************)
LookupFindsModifiers ==
    RootNode # Null =>
        LET order == SearchOrder(RootNode)
        IN  \A i \in 1..Len(order) :
                order[i].modifier =>
                    \A s \in {GetNodeName(order[i].node), GetName(order[i].node)} :
                        (\A j \in 1..(i - 1) : ~Matches(order[j].node, s))
                            => FindNodeByName(RootNode, s) = order[i].node

\* a details request answered with a service that sits on a task under a decorated slot
LookupFindsModifiersWitness ==
    /\ call.op = "GetBehaviorTreeNodeDetails"
    /\ response.success
    /\ IsChildOf(response.node_class, "BTService")
    /\ \E i \in 1..Len(RootNode.Children) :
          /\ RootNode.Children[i].ChildTask # Null
          /\ RootNode.Children[i].Decorators # << >>
          /\ \E k \in 1..Len(RootNode.Children[i].ChildTask.Services) :
                call.NodeName = GetName(RootNode.Children[i].ChildTask.Services[k])

\* the map a details document carries and the fresh node that imported it
Reimported ==
    LET doc == call.Json.obj
    IN  IF HasField(doc, "properties")
        THEN [map |-> doc.properties, node |-> RootNode]
        ELSE IF HasField(doc, "services")
        THEN [map |-> doc.services[1].properties, node |-> RootNode.Services[1]]
        ELSE IF HasField(doc.children[1], "decorators")
        THEN [ map |-> doc.children[1].decorators[1].properties,
               node |-> RootNode.Children[1].Decorators[1] ]
        ELSE [ map |-> doc.children[1].properties,
               node |-> RootNode.Children[1].ChildTask ]

(***************************************************************************)
(* C10.  Attribute round trip: the properties map GetBehaviorTreeNodeDetails*)
(* exports for a node, imported by SetBTNodeProperties onto a fresh node   *)
(* of the same type, gives a node whose export is text-equal for every     *)
(* exported key, wrapped DefaultValue attributes included.                 *)
(***************************************************************************)
AttributeRoundTrip ==
    (BuiltFrom("details") /\ response.success) =>
        \A k \in DOMAIN Reimported.map :
            /\ k \in DOMAIN ExportProperties(Reimported.node)
            /\ ExportProperties(Reimported.node)[k] = Reimported.map[k]

\* the runtime nodes a build left in the graph: node instances and sub-nodes
GraphInstances(Nodes) ==
    UNION { {Nodes[i].NodeInstance} \cup Range(Nodes[i].Decorators) \cup Range(Nodes[i].Services)
            : i \in 2..Len(Nodes) }

\* the keys of the "properties" object of a record, none without one
GivenKeys(rec) == IF HasField(rec, "properties") THEN DOMAIN rec.properties ELSE {}

(***************************************************************************)
(* C11.  Import touches only editable attributes: after a build, every     *)
(* attribute that is not flagged editable still holds the value a fresh    *)
(* node has, on every node, decorator and service, and the top node holds  *)
(* the fresh value in every attribute its properties object does not name. *)
(***************************************************************************)
ImportTouchesOnlyEditable ==
    (IsBuild /\ response.success) =>
        /\ \A n \in GraphInstances(BTGraph.Nodes) :
              \A k \in PropertyNames[n.Class] \ EditableNames[n.Class] :
                  n.Props[k] = DefaultProps[n.Class][k]
        /\ LET top == BTGraph.Nodes[TopGraphNode].NodeInstance
           IN  \A k \in PropertyNames[top.Class] \ GivenKeys(call.Json.obj) :
                   top.Props[k] = DefaultProps[top.Class][k]

\* a modifier entry the builder skips: no class, or a class that does not resolve
SkippedEntry(entry) ==
    ~HasField(entry, "class") \/ FindBTNodeClass(entry.class) = NoClass

RECURSIVE BuiltCount(_)
BuiltCount(rec) ==
    1 + SumSeq([i \in 1..Len(BuildableChildren(rec)) |-> BuiltCount(BuildableChildren(rec)[i])])

RootMarkers(Nodes) == {i \in 1..Len(Nodes) : Nodes[i].Kind = "Root"}

(***************************************************************************)
(* C13.  Rebuild replaces, never accumulates: every build leaves a graph   *)
(* with exactly one root marker.  A build that fails on its top record     *)
(* leaves nothing but the cleared marker.  A build that succeeds leaves    *)
(* the graph a new document would get from the same record: the marker     *)
(* plus one node per record built, every node linked from exactly one      *)
(* node, and the marker's output linked to the new top node alone.         *)
(***************************************************************************)
RebuildReplaces ==
    [][Builds =>
          /\ BTGraph'.exists => Cardinality(RootMarkers(BTGraph'.Nodes)) = 1
          /\ (call'.Json.valid /\ ~response'.success) => OnlyRootMarker(BTGraph')
          /\ response'.success =>
                /\ Len(BTGraph'.Nodes) = 1 + BuiltCount(call'.Json.obj)
                /\ BTGraph'.Nodes[1].Pins[1].LinkedTo = << 2 >>
                /\ BTGraph'.Nodes[2].NodeInstance.Class = call'.Json.obj.node_class
                /\ NoStrayNode(BTGraph'.Nodes)
                /\ BTGraph' = BuildBehaviorTree(DefaultGraph, RootNode, dirty, call'.Json).BTGraph]_vars

\* a second successful build on a document whose graph held a tree of three nodes or more
RebuildReplacesWitness ==
    /\ BuiltFrom("structure")
    /\ response.success
    /\ Len(BTGraph.Nodes) >= 4

(***************************************************************************)
(* C15.  Every response a request returns carries a boolean success field  *)
(* and a string message field.                                             *)
(***************************************************************************)
EveryResponseIsAnEnvelope ==
    call.op # "none" =>
        /\ HasField(response, "success")
        /\ response.success \in BOOLEAN
        /\ HasField(response, "message")

\* the first node in search order that carries the string, Null if none does
FirstInSearchOrder(Root, s) ==
    LET order == SearchOrder(Root)
        hits == {i \in 1..Len(order) : Matches(order[i].node, s)}
    IN  IF hits = {} THEN Null
        ELSE order[CHOOSE i \in hits : \A j \in hits : i <= j].node

\* a node of the live tree as the lookup returns it
Identity(Node) == IF Node = Null THEN Null ELSE [Class |-> Node.Class, Name |-> Node.Name]

(***************************************************************************)
(* C18.  Lookup search order: for every identity string, FindNodeByName    *)
(* returns the first node that carries it in this order: the root, the     *)
(* root's services, then slot by slot the slot's decorators followed by    *)
(* the search of its composite child or by its task and the task's         *)
(* services; it returns nothing only when no node carries the string.      *)
(***************************************************************************)
LookupReturnsFirstInOrder ==
    RootNode # Null =>
        \A s \in KnownNames(RootNode) :
            Identity(FindNodeByName(RootNode, s)) = Identity(FirstInSearchOrder(RootNode, s))

\* a details request for a string carried inside the subtree of one slot and by the task of a later slot
LookupReturnsFirstInOrderWitness ==
    /\ call.op = "GetBehaviorTreeNodeDetails"
    /\ response.success
    /\ \E i, j \in 1..Len(RootNode.Children) :
          /\ i < j
          /\ RootNode.Children[i].ChildComposite # Null
          /\ \E n \in LiveNodes(RootNode.Children[i].ChildComposite) : Matches(n, call.NodeName)
          /\ RootNode.Children[j].ChildTask # Null
          /\ Matches(RootNode.Children[j].ChildTask, call.NodeName)

\* the modifier entries GetBehaviorTreeStructure writes for a list of live modifiers
EntriesOf(list) == ModifierArray(ClassesOf(list), NamesOf(list))

\* rec carries the services of Node, and each child record the decorators of
\* its own slot and the services of its own node, at every depth
RECURSIVE AttachedAtOwnPoints(_, _)
AttachedAtOwnPoints(Node, rec) ==
    LET held == SelectSeq(Node.Children,
                          LAMBDA c : c.ChildComposite # Null \/ c.ChildTask # Null)
        kids == FieldOr(rec, "children")
    IN  /\ FieldOr(rec, "services") = EntriesOf(Node.Services)
        /\ Len(kids) = Len(held)
        /\ \A i \in 1..Len(held) :
              /\ FieldOr(kids[i], "decorators") = EntriesOf(held[i].Decorators)
              /\ IF held[i].ChildComposite # Null
                 THEN AttachedAtOwnPoints(held[i].ChildComposite, kids[i])
                 ELSE FieldOr(kids[i], "services") = EntriesOf(held[i].ChildTask.Services)

(***************************************************************************)
(* C19.  Serializer attachment points: in the record                       *)
(* GetBehaviorTreeStructure returns, the decorators of the child record    *)
(* for a slot are exactly that slot's decorators in list order, the        *)
(* services of every record are exactly that node's own services in list   *)
(* order, and the top-level record has no decorators.                      *)
(***************************************************************************)
SerializerAttachmentPoints ==
    (call.op = "GetBehaviorTreeStructure" /\ response.success) =>
        /\ ~HasField(response.root, "decorators")
        /\ AttachedAtOwnPoints(RootNode, response.root)

\* a structure of a tree whose slots carry different decorators, with services
\* on a nested composite and on a task
SerializerAttachmentPointsWitness ==
    /\ call.op = "GetBehaviorTreeStructure"
    /\ response.success
    /\ Len(RootNode.Children) >= 2
    /\ RootNode.Children[1].Decorators # << >>
    /\ ClassesOf(RootNode.Children[1].Decorators) # ClassesOf(RootNode.Children[2].Decorators)
    /\ RootNode.Children[1].ChildComposite # Null
    /\ RootNode.Children[1].ChildComposite.Services # << >>
    /\ Len(RootNode.Children[1].ChildComposite.Children) >= 1
    /\ RootNode.Children[1].ChildComposite.Children[1].ChildTask # Null
    /\ RootNode.Children[1].ChildComposite.Children[1].ChildTask.Services # << >>

\* no record of a task class carries a children field, at any depth
RECURSIVE NoChildrenOnTasks(_)
NoChildrenOnTasks(rec) ==
    /\ IsChildOf(rec.node_class, "BTTaskNode") => ~HasField(rec, "children")
    /\ \A i \in 1..Len(FieldOr(rec, "children")) : NoChildrenOnTasks(rec.children[i])

(***************************************************************************)
(* C20.  Only composites have children: in the graph a build leaves, a     *)
(* built node has output-linked children only if its class is a composite, *)
(* a children array on a task record leaves no node and no link, and the   *)
(* record GetBehaviorTreeStructure returns has no children field on a task.*)
(***************************************************************************)
OnlyCompositesHaveChildren ==
    /\ (IsBuild /\ response.success) =>
          /\ \A n \in 2..Len(BTGraph.Nodes) :
                LinkedChildren(BTGraph.Nodes[n]) # << >> =>
                    IsChildOf(BTGraph.Nodes[n].NodeInstance.Class, "BTCompositeNode")
          /\ Len(BTGraph.Nodes) = 1 + BuiltCount(call.Json.obj)
          /\ \A n \in 2..Len(BTGraph.Nodes) :
                ~IsChildOf(BTGraph.Nodes[n].NodeInstance.Class, "BTCompositeNode") =>
                    \A p \in 1..Len(BTGraph.Nodes[n].Pins) :
                        Len(BTGraph.Nodes[n].Pins[p].LinkedTo) <= 1
    /\ (call.op = "GetBehaviorTreeStructure" /\ response.success) =>
          NoChildrenOnTasks(response.root)

\* a successful build of a composite whose task entry carries a children array of its own
OnlyCompositesHaveChildrenWitness ==
    /\ IsBuild
    /\ response.success
    /\ \E i \in 1..Len(FieldOr(call.Json.obj, "children")) :
          /\ Buildable(call.Json.obj.children[i])
          /\ IsChildOf(call.Json.obj.children[i].node_class, "BTTaskNode")
          /\ \E k \in 1..Len(FieldOr(call.Json.obj.children[i], "children")) :
                Buildable(call.Json.obj.children[i].children[k])

(***************************************************************************)
(* BuildBehaviorTree statement by statement: one action per statement      *)
(* group of the function, over the same document and with the operators    *)
(* of the request above.                                                   *)
(***************************************************************************)
At(pc) == build.pc = pc
Goto(pc) == build' = [build EXCEPT !.pc = pc]

\* a return statement: the caller gets r and the run is over
Returns(r) ==
    /\ response' = r
    /\ build' = [build EXCEPT !.pc = "done"]

\* the client calls BuildBehaviorTree with a document of its own
EnterBuildBehaviorTree ==
    /\ At("idle")
    /\ \E Json \in {Unparsable} \cup {Parsed(d) : d \in ClientDocs} :
          call' = [op |-> "BuildBehaviorTree", source |-> "client", Json |-> Json]
    /\ Goto("parse")
    /\ UNCHANGED <<BTGraph, RootNode, dirty, response>>
    /\ UNCHANGED bridgeVars

\* Parse JSON
ParseJsonInput ==
    /\ At("parse")
    /\ IF call.Json.valid
       THEN Goto("graph") /\ UNCHANGED response
       ELSE Returns(Failure("Failed to parse JSON input."))
    /\ UNCHANGED <<BTGraph, RootNode, dirty, call>>
    /\ UNCHANGED bridgeVars

\* Get BT graph, create if missing
GetOrCreateGraph ==
    /\ At("graph")
    /\ BTGraph' = IF BTGraph.exists THEN BTGraph ELSE DefaultGraph
    /\ Goto("findroot")
    /\ UNCHANGED <<RootNode, dirty, call, response>>
    /\ UNCHANGED bridgeVars

\* Find root graph node
FindRootNode ==
    /\ At("findroot")
    /\ IF FindRootGraphNode(BTGraph.Nodes) = 0
       THEN Returns(Failure("No root node found in BT graph."))
       ELSE /\ build' = [build EXCEPT !.pc = "remove",
                                      !.RootGraphNode = FindRootGraphNode(BTGraph.Nodes)]
            /\ UNCHANGED response
    /\ UNCHANGED <<BTGraph, RootNode, dirty, call>>
    /\ UNCHANGED bridgeVars

\* Remove all existing non-root graph nodes: the marker is the one node left
RemoveNonRootNodes ==
    /\ At("remove")
    /\ BTGraph' = [BTGraph EXCEPT !.Nodes = << BTGraph.Nodes[build.RootGraphNode] >>]
    /\ build' = [build EXCEPT !.pc = "clear", !.RootGraphNode = 1]
    /\ UNCHANGED <<RootNode, dirty, call, response>>
    /\ UNCHANGED bridgeVars

\* Clear root pin links and sub-nodes
ClearRootNode ==
    /\ At("clear")
    /\ BTGraph' = [BTGraph EXCEPT !.Nodes[build.RootGraphNode] = ClearedRoot(@)]
    /\ Goto("create")
    /\ UNCHANGED <<RootNode, dirty, call, response>>
    /\ UNCHANGED bridgeVars

\* Create graph nodes from JSON
CreateGraphNodes ==
    /\ At("create")
    /\ LET built == CreateBTGraphNodeRecursive([Nodes |-> BTGraph.Nodes, nobj |-> 0],
                                               call.Json.obj)
       IN  /\ BTGraph' = [BTGraph EXCEPT !.Nodes = built.B.Nodes]
           /\ IF built.node = 0
              THEN Returns(Failure("Failed to create root node from JSON. Check node_class names."))
              ELSE /\ build' = [build EXCEPT !.pc = "link", !.FirstChild = built.node]
                   /\ UNCHANGED response
    /\ UNCHANGED <<RootNode, dirty, call>>
    /\ UNCHANGED bridgeVars

\* Connect root to first child
ConnectRootToFirstChild ==
    /\ At("link")
    /\ BTGraph' = [BTGraph EXCEPT !.Nodes = LinkRoot(@, build.FirstChild)]
    /\ Goto("layout")
    /\ UNCHANGED <<RootNode, dirty, call, response>>
    /\ UNCHANGED bridgeVars

\* Layout nodes
LayoutNodes ==
    /\ At("layout")
    /\ BTGraph' = [BTGraph EXCEPT !.Nodes = LaidOut(@)]
    /\ Goto("compile")
    /\ UNCHANGED <<RootNode, dirty, call, response>>
    /\ UNCHANGED bridgeVars

\* Compile graph into the runtime tree
CompileGraph ==
    /\ At("compile")
    /\ RootNode' = UpdateAsset(BTGraph.Nodes, RootNode)
    /\ build' = [build EXCEPT !.pc = "dirty", !.UpdateAssetCalls = @ + 1]
    /\ UNCHANGED <<BTGraph, dirty, call, response>>
    /\ UNCHANGED bridgeVars

\* BehaviorTree->MarkPackageDirty()
MarkModified ==
    /\ At("dirty")
    /\ dirty' = TRUE
    /\ Goto("return")
    /\ UNCHANGED <<BTGraph, RootNode, call, response>>
    /\ UNCHANGED bridgeVars

\* Return success
ReturnSuccess ==
    /\ At("return")
    /\ Returns([ success |-> TRUE,
                 message |-> "Behavior tree built successfully from JSON." ])
    /\ UNCHANGED <<BTGraph, RootNode, dirty, call>>
    /\ UNCHANGED bridgeVars

StepNext ==
    \/ EnterBuildBehaviorTree
    \/ ParseJsonInput
    \/ GetOrCreateGraph
    \/ FindRootNode
    \/ RemoveNonRootNodes
    \/ ClearRootNode
    \/ CreateGraphNodes
    \/ ConnectRootToFirstChild
    \/ LayoutNodes
    \/ CompileGraph
    \/ MarkModified
    \/ ReturnSuccess

StepSpec == Init /\ [][StepNext]_vars

\* every node reachable from the root marker is where the layout puts it
PositionsAssigned(Nodes) ==
    Nodes = LayoutBTGraphNodes(Nodes, 1, 0, CountSubtreeLeaves(Nodes, 1) * LeafWidth, 0)

\* this step invokes the compiler
InvokesUpdateAsset == build'.UpdateAssetCalls # build.UpdateAssetCalls

(***************************************************************************)
(* C14.  Layout precedes compilation: within a run of BuildBehaviorTree    *)
(* UpdateAsset is invoked at most once, and only on a graph whose root     *)
(* marker is linked to the new top node and whose reachable nodes all have *)
(* the position LayoutBTGraphNodes assigns; the document is marked         *)
(* modified only after the compilation; once the compiler has been invoked *)
(* the graph never changes again (no node created, linked or moved).       *)
(***************************************************************************)
LayoutPrecedesCompilation ==
    [][ /\ InvokesUpdateAsset =>
              /\ build.UpdateAssetCalls = 0
              /\ build.FirstChild # 0
              /\ LinkedChildren(BTGraph.Nodes[1]) = << build.FirstChild >>
              /\ PositionsAssigned(BTGraph.Nodes)
        /\ RootNode' # RootNode => InvokesUpdateAsset
        /\ dirty' # dirty => build.UpdateAssetCalls = 1
        /\ build.UpdateAssetCalls > 0 => BTGraph' = BTGraph
      ]_vars

\* a finished run that compiled a graph of at least three built nodes over a
\* document that was not modified before
LayoutPrecedesCompilationWitness ==
    /\ build.pc = "done"
    /\ build.UpdateAssetCalls = 1
    /\ response.success
    /\ dirty
    /\ Len(BTGraph.Nodes) >= 4
    /\ \E n \in 1..Len(BTGraph.Nodes) : Len(LinkedChildren(BTGraph.Nodes[n])) >= 2

(***************************************************************************)
(* The TCP bridge (MCPythonTcpServer.cpp).  Texts are sequences of tokens, *)
(* a token being one character or a run of characters no rule looks into.  *)
(***************************************************************************)
Conns == 1..MaxConns

\* the named threads AsyncTask is given
ReadingThread == "AnyBackgroundThreadNormalTask"
\* a processing task handed to the pool of background threads
ProcessingOnBackgroundThread == "AnyBackgroundThreadNormalTask"
ProcessingThread == "GameThread"

\* FString::Replace of every occurrence of one character
RECURSIVE Replace(_, _, _)
Replace(s, from, to) ==
    IF s = << >> THEN << >>
    ELSE (IF Head(s) = from THEN to ELSE << Head(s) >>) \o Replace(Tail(s), from, to)

\* the six replacements of the String case, in the order of the code
EscapePythonString(s) ==
    Replace(Replace(Replace(Replace(Replace(Replace(s,
        "\\", << "\\", "\\" >>),
        "'",  << "\\", "'" >>),
        "\"", << "\\", "\"" >>),
        "\n", << "\\", "n" >>),
        "\r", << "\\", "r" >>),
        "\t", << "\\", "t" >>)

\* an object value holds its pairs in document order
RECURSIVE ConvertJsonValueToPythonLiteral(_)
ConvertJsonValueToPythonLiteral(JsonVal) ==
    LET \* the loop of the Array case: items separated by ", "
        RECURSIVE ArrayLiteral(_)
        ArrayLiteral(Array) ==
            IF Array = << >> THEN << >>
            ELSE ConvertJsonValueToPythonLiteral(Head(Array))
                 \o (IF Len(Array) > 1 THEN << ", " >> ELSE << >>)
                 \o ArrayLiteral(Tail(Array))
        \* the loop of the Object case: 'key': value pairs separated by ", "
        RECURSIVE DictLiteral(_, _)
        DictLiteral(Pairs, bFirst) ==
            IF Pairs = << >> THEN << >>
            ELSE (IF bFirst THEN << >> ELSE << ", " >>)
                 \o << "'" >> \o EscapePythonString(Head(Pairs).key) \o << "'", ": " >>
                 \o ConvertJsonValueToPythonLiteral(Head(Pairs).value)
                 \o DictLiteral(Tail(Pairs), FALSE)
    IN  IF JsonVal.type = "Null" THEN << "None" >>
        ELSE IF JsonVal.type = "String"
        THEN << "'" >> \o EscapePythonString(JsonVal.v) \o << "'" >>
        ELSE IF JsonVal.type = "Number" THEN << ToString(JsonVal.v) >>
        ELSE IF JsonVal.type = "Boolean" THEN << IF JsonVal.v THEN "True" ELSE "False" >>
        ELSE IF JsonVal.type = "Array" THEN << "[" >> \o ArrayLiteral(JsonVal.v) \o << "]" >>
        ELSE IF JsonVal.type = "Object" THEN << "{" >> \o DictLiteral(JsonVal.v, TRUE) \o << "}" >>
        ELSE << "None" >>

\* TryGetStringField / TryGetObjectField on the request object
TryGetField(JsonObj, f, type) == HasField(JsonObj, f) /\ JsonObj[f].type = type

\* Python's reading of a script: each string literal, from its opening quote
\* to the first unescaped quote of the same kind, counts as one "literal";
\* a backslash inside a literal takes the next character with it
RECURSIVE PythonStructure(_, _)
PythonStructure(s, quote) ==
    IF s = << >> THEN (IF quote = "" THEN << >> ELSE << "unterminated" >>)
    ELSE IF quote = ""
    THEN IF Head(s) \in {"'", "\""}
         THEN << "literal" >> \o PythonStructure(Tail(s), Head(s))
         ELSE << Head(s) >> \o PythonStructure(Tail(s), "")
    ELSE IF Head(s) = "\\"
    THEN PythonStructure(IF Len(s) >= 2 THEN Tail(Tail(s)) ELSE << >>, quote)
    ELSE PythonStructure(Tail(s), IF Head(s) = quote THEN "" ELSE quote)

\* the scripts the bridge substitutes for a request it cannot run
CodeMissingScript ==
    << "import json; print(json.dumps({'success': False, 'message': 'Error: code field missing'}))" >>
CallFieldsMissingScript ==
    << "import json; print(json.dumps({'success': False, 'message': 'Error: module/function field missing'}))" >>
UnsupportedTypeScript(TypeField) ==
    << "import json; print(json.dumps({", "'", "success", "'", ": False, ",
       "'", "message", "'", ": ", "'", "Unsupported type: " >>
    \o Replace(TypeField, "'", << "\\", "'" >>)
    \o << "'", "}))" >>

\* the python_call branch: the script calls execute_action with the module,
\* the function and the arguments
PythonCall(JsonObj) ==
    IF TryGetField(JsonObj, "module", "String") /\ TryGetField(JsonObj, "function", "String")
    THEN [ ResultMsg |-> << >>,
           CodeField |->
               << "import mcp_unreal_actions;print(mcp_unreal_actions.execute_action(", "'" >>
               \o JsonObj.module.v \o << "'", ", ", "'" >>
               \o JsonObj.function.v \o << "'", ", " >>
               \o (IF TryGetField(JsonObj, "args", "Object")
                   THEN ConvertJsonValueToPythonLiteral(JsonObj.args)
                   ELSE << "{}" >>)
               \o << "));" >> ]
    ELSE [ ResultMsg |-> << "Failed: Missing 'module' or 'function' field for type 'python_call'" >>,
           CodeField |-> CallFieldsMissingScript ]

\* the branches on TypeField: the pre-execution message and the script to run
ScriptFor(JsonObj) ==
    IF JsonObj.type.v = << "python" >>
    THEN IF TryGetField(JsonObj, "code", "String")
         THEN [ResultMsg |-> << >>, CodeField |-> JsonObj.code.v]
         ELSE [ ResultMsg |-> << "Failed: 'code' field missing for type 'python'" >>,
                CodeField |-> CodeMissingScript ]
    ELSE IF JsonObj.type.v = << "python_call" >> THEN PythonCall(JsonObj)
    ELSE [ ResultMsg |-> << "Failed: Unsupported type: " >> \o JsonObj.type.v,
           CodeField |-> UnsupportedTypeScript(JsonObj.type.v) ]

\* FJsonSerializer::Deserialize on the received text (the client's text, whole
\* when every segment was read): a cut text does not parse
Deserialize(Data) == IF Data.got = Data.of THEN Data.text ELSE Unparsable

\* a capture that appends the lines of every category
SerializeAnyCategory(CapturedLogs, InData, Category) == CapturedLogs \o InData \o << "\n" >>

\* FPythonLogCapture::Serialize: a line of category LogPython is appended
Serialize(CapturedLogs, InData, Category) ==
    IF Category = "LogPython" THEN CapturedLogs \o InData \o << "\n" >> ELSE CapturedLogs

\* GLog hands the registered device every line that is logged, in order
RECURSIVE LogLines(_, _)
LogLines(CapturedLogs, lines) ==
    IF lines = << >> THEN CapturedLogs
    ELSE LogLines(Serialize(CapturedLogs, Head(lines).InData, Head(lines).Category), Tail(lines))

\* FString::TrimStartAndEnd
RECURSIVE TrimStartAndEnd(_)
TrimStartAndEnd(s) ==
    IF s # << >> /\ Head(s) \in {" ", "\n", "\r", "\t"}
    THEN TrimStartAndEnd(Tail(s))
    ELSE IF s # << >> /\ s[Len(s)] \in {" ", "\n", "\r", "\t"}
    THEN TrimStartAndEnd(SubSeq(s, 1, Len(s) - 1))
    ELSE s

\* the captured text, wrapped in an error object when it does not look like
\* JSON; the JSON writer escapes the raw text it quotes
ResultText(CapturedLogs) ==
    IF CapturedLogs # << >> /\ Head(CapturedLogs) \in {"{", "["}
    THEN CapturedLogs
    ELSE << "{", "\"success\":false,\"message\":\"Python did not return JSON\",\"raw_result\":", "\"" >>
         \o Replace(Replace(Replace(CapturedLogs, "\\", << "\\", "\\" >>),
                                     "\"", << "\\", "\"" >>),
                             "\n", << "\\", "n" >>)
         \o << "\"", "}" >>

\* ResponseToClient after the script ran
ResponseToClient(ResultMsg, bExecSuccess, CapturedLogs) ==
    [ success |-> bExecSuccess,
      message |-> IF ResultMsg # << >> THEN ResultMsg
                  ELSE IF ~bExecSuccess
                  THEN IF CapturedLogs # << >>
                       THEN << "Python execution failed. See result for details." >>
                       ELSE << "Python execution failed with no specific error log." >>
                  ELSE << "Python command executed successfully." >>,
      result |-> CapturedLogs ]

\* the error envelopes of the branches that run no script
ErrorResponse(ResultMsg) == [success |-> FALSE, message |-> ResultMsg]
ParseErrorResponse(Data) ==
    [ success |-> FALSE,
      message |-> << "Failed: JSON parse error on received data" >>,
      raw_data |-> Data ]

\* a line of the global log
LogLine(Category, InData) == [Category |-> Category, InData |-> InData]

\* IPythonScriptPlugin::ExecPythonCommandEx: what a script may return and what
\* is logged while it runs (its prints under LogPython, warnings of the code
\* it calls under LogTemp); a script of the bridge's own that Python reads as
\* written prints its one JSON line
ExecPythonCommandEx(Command) ==
    IF \/ Command \in {CodeMissingScript, CallFieldsMissingScript}
       \/ PythonStructure(Command, "") = PythonStructure(UnsupportedTypeScript(<< "x" >>), "")
    THEN { [bExecSuccess |-> TRUE,
            lines |-> << LogLine("LogPython", << "{", "\"success\": false", "}" >>) >>] }
    ELSE { [bExecSuccess |-> TRUE,
            lines |-> << LogLine("LogTemp", << "BuildBT: Unsupported node type" >>),
                         LogLine("LogPython", << "{", "\"success\": true", "}" >>) >>],
           [bExecSuccess |-> TRUE,  lines |-> << >>],
           [bExecSuccess |-> FALSE,
            lines |-> << LogLine("LogPython", << "Traceback" >>),
                         LogLine("LogPython", << "Error" >>) >>],
           [bExecSuccess |-> FALSE, lines |-> << >>] }

\* the requests a client sends on a connection
ClientRequests ==
    { Unparsable,
      Parsed([id |-> Str(<< "1" >>)]),
      Parsed([type |-> Str(<< "python" >>), code |-> Str(<< "print(1)" >>)]),
      Parsed([type |-> Str(<< "python" >>)]),
      Parsed([type |-> Str(<< "python_call" >>), module |-> Str(<< "m" >>),
              function |-> Str(<< "f" >>)]),
      Parsed([type |-> Str(<< "python_call" >>), module |-> Str(<< "m" >>),
              function |-> Str(<< "f", "'" >>),
              args |-> [ type |-> "Object",
                         v |-> << [ key |-> << "k", "'" >>,
                                    value |-> [ type |-> "Array",
                                                v |-> << Str(<< "a", "\\", "b" >>), Num(1),
                                                         Bool(TRUE), JsonNull >> ] ] >> ]]),
      Parsed([type |-> Str(<< "python_call" >>), module |-> Str(<< "m" >>)]),
      Parsed([type |-> Str(<< "live", "'", "coding" >>)]),
      Parsed([type |-> Str(<< "live", "\\" >>)]) }

\* how a client transmits a request: any text in one segment, a text that
\* carries a script also split into several, and a client that connects and
\* sends nothing
ClientTransmissions ==
    { [text |-> t, segments |-> 1] : t \in ClientRequests }
    \cup { [text |-> t, segments |-> n] :
              t \in {r \in ClientRequests : r.valid /\ HasField(r.obj, "code")},
              n \in 2..MaxSegments }
    \cup { [text |-> Unparsable, segments |-> 0] }

\* the tasks of a request that run its processing, from entry to DestroySocket
Processing == {"processing", "executing", "sending", "closing", "destroying"}

\* the game thread is inside a task of a request
GameThreadBusy ==
    \E d \in Conns : conn[d].pc \in Processing /\ conn[d].thread = "GameThread"

\* a named thread runs one task at a time, oldest first, and none while it is
\* inside ShutdownModule; the pool of background threads takes any task at once
CanStart(c) ==
    IF conn[c].thread = "GameThread"
    THEN /\ gameQueue # << >>
         /\ Head(gameQueue) = c
         /\ ~GameThreadBusy
         /\ TcpListener \/ ~TcpServer
    ELSE TRUE

\* HandleIncomingConnection: the listener hands over an accepted socket, the
\* line it logs reaches the devices registered with GLog, and the read task
\* is dispatched to a background thread
HandleIncomingConnection ==
    /\ TcpListener
    /\ \E c \in Conns :
          /\ conn[c].pc = "free"
          /\ \A d \in 1..(c - 1) : conn[d].pc # "free"
          /\ \E t \in ClientTransmissions :
                conn' = [conn EXCEPT ![c] = [@ EXCEPT !.pc = "reading",
                                                      !.thread = ReadingThread,
                                                      !.text = t.text,
                                                      !.segments = t.segments,
                                                      !.unsent = t.segments]]
    /\ LogCapture' = IF GLogDevices
                     THEN Serialize(LogCapture, << "Incoming connection" >>, "LogMCPython")
                     ELSE LogCapture
    /\ UNCHANGED <<gameQueue, GLogDevices, TcpListener, bShouldRun, TcpServer, PythonScriptPlugin>>
    /\ UNCHANGED docVars

\* a segment of the client's request arrives at the socket
ClientSends ==
    /\ \E c \in Conns :
          /\ conn[c].pc \notin {"free", "crashed"}
          /\ conn[c].Closes = 0
          /\ conn[c].unsent > 0
          /\ conn' = [conn EXCEPT ![c] = [@ EXCEPT !.unsent = @ - 1, !.pending = @ + 1]]
    /\ UNCHANGED <<gameQueue, LogCapture, GLogDevices, TcpListener, bShouldRun, TcpServer, PythonScriptPlugin>>
    /\ UNCHANGED docVars

\* the test of the read loop holds: data is pending, or nothing was received
\* yet; DataSize is what is pending now
HasPendingData ==
    /\ \E c \in Conns :
          /\ conn[c].pc = "reading"
          /\ conn[c].pending > 0 \/ conn[c].ReceivedData = 0
          /\ conn' = [conn EXCEPT ![c] = [@ EXCEPT !.pc = "recv",
                                                   !.DataSize = conn[c].pending]]
    /\ UNCHANGED <<gameQueue, LogCapture, GLogDevices, TcpListener, bShouldRun, TcpServer, PythonScriptPlugin>>
    /\ UNCHANGED docVars

\* the body of the read loop: Recv fills a buffer of DataSize (nothing when
\* DataSize is 0) and the buffer is appended
Recv ==
    /\ \E c \in Conns :
          /\ conn[c].pc = "recv"
          /\ conn' = [conn EXCEPT ![c] = [@ EXCEPT !.pc = "reading",
                                                   !.ReceivedData = @ + conn[c].DataSize,
                                                   !.pending = @ - conn[c].DataSize]]
    /\ UNCHANGED <<gameQueue, LogCapture, GLogDevices, TcpListener, bShouldRun, TcpServer, PythonScriptPlugin>>
    /\ UNCHANGED docVars

\* the loop ends (nothing pending, something received) and the text is
\* handed to AsyncTask for the processing thread
PostToGameThread ==
    /\ \E c \in Conns :
          /\ conn[c].pc = "reading"
          /\ conn[c].pending = 0
          /\ conn[c].ReceivedData > 0
          /\ conn' = [conn EXCEPT ![c] =
                         [@ EXCEPT !.pc = "queued",
                                   !.thread = ProcessingThread,
                                   !.Data = [ text |-> conn[c].text,
                                              got |-> conn[c].ReceivedData,
                                              of |-> conn[c].segments ]]]
          /\ gameQueue' = Append(gameQueue, c)
    /\ UNCHANGED <<LogCapture, GLogDevices, TcpListener, bShouldRun, TcpServer, PythonScriptPlugin>>
    /\ UNCHANGED docVars

\* the thread takes the task: ProcessDataOnGameThread is entered
EnterProcessData ==
    /\ \E c \in Conns :
          /\ conn[c].pc = "queued"
          /\ CanStart(c)
          /\ conn' = [conn EXCEPT ![c] = [@ EXCEPT !.pc = "processing"]]
          /\ gameQueue' = SelectSeq(gameQueue, LAMBDA d : d # c)
    /\ UNCHANGED <<LogCapture, GLogDevices, TcpListener, bShouldRun, TcpServer, PythonScriptPlugin>>
    /\ UNCHANGED docVars

\* the envelope is ready: the send loop starts
StartSending(c, Envelope) ==
    conn' = [conn EXCEPT ![c] = [@ EXCEPT !.pc = "sending",
                                          !.Envelope = Envelope,
                                          !.TotalSent = 0]]

\* LogCapture.Clear() and GLog->AddOutputDevice(&LogCapture): the script is
\* about to run
AddOutputDevice(c, script) ==
    /\ conn' = [conn EXCEPT ![c] = [@ EXCEPT !.pc = "executing", !.Script = script]]
    /\ LogCapture' = << >>
    /\ GLogDevices' = TRUE
    /\ UNCHANGED gameQueue

\* the process ends: no task of it goes on
Crash ==
    /\ conn' = [c \in Conns |-> [conn[c] EXCEPT !.pc = IF @ = "free" THEN @ ELSE "crashed"]]
    /\ gameQueue' = << >>
    /\ UNCHANGED <<LogCapture, GLogDevices>>

\* the branches of ProcessDataOnGameThread on the received text; the branch
\* that runs a script uses the LogCapture member through the captured this,
\* which after the server was destroyed either still works or ends the process
ProcessParsed(c, Json) ==
    IF ~Json.valid
    THEN /\ StartSending(c, ParseErrorResponse(conn[c].Data))
         /\ UNCHANGED <<gameQueue, LogCapture, GLogDevices>>
    ELSE IF ~TryGetField(Json.obj, "type", "String")
    THEN /\ StartSending(c, ErrorResponse(<< "Failed: Missing 'type' field in JSON request" >>))
         /\ UNCHANGED <<gameQueue, LogCapture, GLogDevices>>
    ELSE IF PythonScriptPlugin
    THEN \/ AddOutputDevice(c, ScriptFor(Json.obj))
         \/ ~TcpServer /\ Crash
    ELSE /\ StartSending(c, ErrorResponse(<< "Failed: PythonScriptPlugin not found" >>))
         /\ UNCHANGED <<gameQueue, LogCapture, GLogDevices>>

\* ProcessDataOnGameThread up to the script's execution, or to the serialized
\* envelope of a request that runs none
ProcessData ==
    /\ \E c \in Conns :
          /\ conn[c].pc = "processing"
          /\ ProcessParsed(c, Deserialize(conn[c].Data))
    /\ UNCHANGED <<TcpListener, bShouldRun, TcpServer, PythonScriptPlugin>>
    /\ UNCHANGED docVars

\* ExecPythonCommandEx, RemoveOutputDevice, and the envelope built from the
\* captured text
ExecPythonCommand ==
    /\ \E c \in Conns :
          /\ conn[c].pc = "executing"
          /\ \E outcome \in ExecPythonCommandEx(conn[c].Script.CodeField) :
                /\ LogCapture' = LogLines(LogCapture, outcome.lines)
                /\ conn' = [conn EXCEPT ![c] =
                      [@ EXCEPT !.pc = "sending",
                                !.Emitted = outcome.lines,
                                !.Envelope =
                                    ResponseToClient(conn[c].Script.ResultMsg,
                                        outcome.bExecSuccess,
                                        ResultText(TrimStartAndEnd(
                                            LogLines(LogCapture, outcome.lines)))),
                                !.TotalSent = 0]]
    /\ GLogDevices' = FALSE
    /\ UNCHANGED <<gameQueue, TcpListener, bShouldRun, TcpServer, PythonScriptPlugin>>
    /\ UNCHANGED docVars

\* a send loop that hands Send the start of the buffer on every pass
UnitsFromBufferStart(Envelope, first, last) ==
    [i \in 1..(last - first + 1) |-> [of |-> Envelope, unit |-> i]]

\* the units of an envelope from first to last
RECURSIVE Units(_, _, _)
Units(Envelope, first, last) ==
    IF first > last THEN << >>
    ELSE << [of |-> Envelope, unit |-> first] >> \o Units(Envelope, first + 1, last)

\* one pass of the send loop: Send fails, sends nothing, or sends SentNow units
Send ==
    /\ \E c \in Conns :
          /\ conn[c].pc = "sending"
          /\ \/ conn' = [conn EXCEPT ![c] = [@ EXCEPT !.pc = "closing", !.SendResult = "error"]]
             \/ conn' = [conn EXCEPT ![c] = [@ EXCEPT !.pc = "closing", !.SendResult = "zero"]]
             \/ \E SentNow \in 1..(EnvelopeSize - conn[c].TotalSent) :
                   conn' = [conn EXCEPT ![c] =
                               [@ EXCEPT !.wire = @ \o Units(conn[c].Envelope,
                                                             conn[c].TotalSent + 1,
                                                             conn[c].TotalSent + SentNow),
                                         !.TotalSent = @ + SentNow,
                                         !.SendResult = "sent",
                                         !.pc = IF conn[c].TotalSent + SentNow < EnvelopeSize
                                                THEN "sending" ELSE "closing"]]
    /\ UNCHANGED <<gameQueue, LogCapture, GLogDevices, TcpListener, bShouldRun, TcpServer, PythonScriptPlugin>>
    /\ UNCHANGED docVars

\* ClientSocket->Close()
CloseSocket ==
    /\ \E c \in Conns :
          /\ conn[c].pc = "closing"
          /\ conn' = [conn EXCEPT ![c] = [@ EXCEPT !.pc = "destroying", !.Closes = @ + 1]]
    /\ UNCHANGED <<gameQueue, LogCapture, GLogDevices, TcpListener, bShouldRun, TcpServer, PythonScriptPlugin>>
    /\ UNCHANGED docVars

\* DestroySocket(ClientSocket): the task returns
DestroySocket ==
    /\ \E c \in Conns :
          /\ conn[c].pc = "destroying"
          /\ conn' = [conn EXCEPT ![c] = [@ EXCEPT !.pc = "done", !.Destroys = @ + 1]]
    /\ UNCHANGED <<gameQueue, LogCapture, GLogDevices, TcpListener, bShouldRun, TcpServer, PythonScriptPlugin>>
    /\ UNCHANGED docVars

\* FMCPythonTcpServer::Stop, called by ShutdownModule on the game thread
Stop ==
    /\ TcpListener
    /\ ~GameThreadBusy
    /\ bShouldRun' = FALSE
    /\ TcpListener' = FALSE
    /\ UNCHANGED <<conn, gameQueue, LogCapture, GLogDevices, TcpServer, PythonScriptPlugin>>
    /\ UNCHANGED docVars

\* ShutdownModule after Stop returned: TcpServer.Reset() destroys the server
\* object (its destructor calls Stop once more, which changes nothing)
ShutdownModule ==
    /\ ~TcpListener
    /\ TcpServer
    /\ TcpServer' = FALSE
    /\ UNCHANGED <<conn, gameQueue, LogCapture, GLogDevices, TcpListener, bShouldRun, PythonScriptPlugin>>
    /\ UNCHANGED docVars

\* a started server over a new document, with or without the scripting engine
BridgeInit ==
    /\ BTGraph = DefaultGraph
    /\ RootNode = Null
    /\ dirty = FALSE
    /\ call = [op |-> "none"]
    /\ response = [success |-> TRUE]
    /\ build = NoRun
    /\ BridgeStarted
    /\ PythonScriptPlugin \in BOOLEAN

BridgeNext ==
    \/ HandleIncomingConnection
    \/ ClientSends
    \/ HasPendingData
    \/ Recv
    \/ PostToGameThread
    \/ EnterProcessData
    \/ ProcessData
    \/ ExecPythonCommand
    \/ Send
    \/ CloseSocket
    \/ DestroySocket
    \/ Stop
    \/ ShutdownModule

BridgeSpec == BridgeInit /\ [][BridgeNext]_vars

\* this step reads from the socket of c
ReadsSocket(c) ==
    conn'[c].pending < conn[c].pending \/ conn'[c].ReceivedData # conn[c].ReceivedData

\* what every step keeps of a connection's socket: nothing is written once it
\* is closed, it is destroyed only after it was closed, and it is read only
\* by its read task, which never starts again
SocketUsedInOrder(c) ==
    /\ conn'[c].wire # conn[c].wire => conn[c].Closes = 0 /\ conn[c].Destroys = 0
    /\ conn'[c].Closes # conn[c].Closes => conn[c].Closes = 0 /\ conn[c].Destroys = 0
    /\ conn'[c].Destroys # conn[c].Destroys => conn[c].Closes = 1 /\ conn[c].Destroys = 0
    /\ ReadsSocket(c) => conn[c].pc = "recv"
    /\ conn[c].pc \notin {"free", "reading", "recv"} => conn'[c].pc \notin {"reading", "recv"}

(***************************************************************************)
(* C16 as stated.  One envelope per connection: every connection whose     *)
(* data reached ProcessDataOnGameThread has, when its task returns,        *)
(* exactly one whole envelope on the wire and a socket closed once and     *)
(* destroyed once; nothing is sent after the close and nothing is read     *)
(* after the request was handed over.                                      *)
(***************************************************************************)
OneEnvelopePerConnection ==
    [][ \A c \in Conns :
          /\ conn'[c].pc = "done" =>
                /\ conn'[c].wire = Units(conn'[c].Envelope, 1, EnvelopeSize)
                /\ conn'[c].Closes = 1
                /\ conn'[c].Destroys = 1
          /\ SocketUsedInOrder(c)
      ]_vars

(***************************************************************************)
(* C16.  At most one envelope per connection: when the task of a           *)
(* connection returns, the wire holds the leading part of its one envelope *)
(* and nothing else, the whole of it unless a Send call reported failure   *)
(* or sent zero bytes; on every branch the socket was closed once and then *)
(* destroyed once; nothing is sent after the close and nothing is read     *)
(* after the request was handed over.                                      *)
(***************************************************************************)
AtMostOneEnvelopePerConnection ==
    [][ \A c \in Conns :
          /\ conn'[c].pc = "done" =>
                /\ conn'[c].wire = Units(conn'[c].Envelope, 1, conn'[c].TotalSent)
                /\ conn'[c].TotalSent < EnvelopeSize => conn'[c].SendResult \in {"error", "zero"}
                /\ conn'[c].SendResult = "sent" => conn'[c].TotalSent = EnvelopeSize
                /\ conn'[c].Closes = 1
                /\ conn'[c].Destroys = 1
          /\ SocketUsedInOrder(c)
      ]_vars

\* two finished connections: one whose script ran and whose envelope went out
\* in two passes of the send loop, one whose request did not parse and whose
\* envelope was cut by a failing Send
AtMostOneEnvelopePerConnectionWitness ==
    \E c, d \in Conns :
        /\ conn[c].pc = "done" /\ conn[d].pc = "done"
        /\ HasField(conn[c].Envelope, "result")
        /\ conn[c].wire = Units(conn[c].Envelope, 1, EnvelopeSize)
        /\ HasField(conn[d].Envelope, "raw_data")
        /\ Len(conn[d].wire) = 1
        /\ conn[d].SendResult = "error"
        /\ conn[c].Closes = 1 /\ conn[d].Closes = 1
        /\ conn[c].Destroys = 1 /\ conn[d].Destroys = 1

\* this step is one of the read task of c: a pass of its loop, or its end
ReadTaskActs(c) ==
    /\ conn[c].pc \in {"reading", "recv"}
    /\ conn'[c].pc \notin {conn[c].pc, "crashed"}

\* this step parses, executes, writes, closes or destroys for c
ProcessingActs(c) ==
    \/ conn'[c].Envelope # conn[c].Envelope
    \/ conn'[c].wire # conn[c].wire
    \/ conn'[c].Closes # conn[c].Closes
    \/ conn'[c].Destroys # conn[c].Destroys

(***************************************************************************)
(* C17.  Threading discipline: a read task runs on a background thread and *)
(* touches only its own socket's incoming bytes (and hands the text over); *)
(* parsing, execution, the response write and the close run in a task of   *)
(* the game thread; the log capture is touched only from there; and at no  *)
(* time are two requests between entry to and return from                  *)
(* ProcessDataOnGameThread.                                                *)
(***************************************************************************)
ThreadingDiscipline ==
    [][ /\ \A c \in Conns :
              /\ ReadTaskActs(c) =>
                    /\ conn[c].thread = "AnyBackgroundThreadNormalTask"
                    /\ \A d \in Conns \ {c} : conn'[d] = conn[d]
                    /\ ~ProcessingActs(c)
                    /\ LogCapture' = LogCapture
                    /\ UNCHANGED docVars
              /\ ProcessingActs(c) =>
                    /\ conn[c].thread = "GameThread"
                    /\ conn[c].pc \in Processing
        /\ LogCapture' # LogCapture =>
              \E c \in Conns : /\ conn[c].pc \in {"processing", "executing"}
                                /\ conn[c].thread = "GameThread"
        /\ Cardinality({c \in Conns : conn'[c].pc \in Processing}) <= 1
      ]_vars

\* two connections accepted concurrently: one is being answered while the
\* request of the other waits in the queue of the game thread
ThreadingDisciplineWitness ==
    \E c, d \in Conns :
        /\ conn[c].pc = "sending"
        /\ HasField(conn[c].Envelope, "result")
        /\ conn[d].pc = "queued"
        /\ gameQueue = << d >>

\* the entry names a class that resolves to a descendant of base
Attachable(entry, base) ==
    /\ HasField(entry, "class")
    /\ FindBTNodeClass(entry.class) # NoClass
    /\ IsChildOf(FindBTNodeClass(entry.class), base)

\* the classes of the entries of arr that attach under base, in array order
AttachableClasses(arr, base) ==
    LET ok == SelectSeq(arr, LAMBDA entry : Attachable(entry, base))
    IN  [i \in 1..Len(ok) |-> ok[i].class]

\* graph node id and everything built below it carry exactly the attachable
\* entries of their records, in record order
RECURSIVE ModifiersTyped(_, _, _)
ModifiersTyped(Nodes, id, rec) ==
    LET kids == LinkedChildren(Nodes[id])
        recs == BuildableChildren(rec)
    IN  /\ [i \in 1..Len(Nodes[id].Decorators) |-> Nodes[id].Decorators[i].Class]
           = AttachableClasses(FieldOr(rec, "decorators"), "BTDecorator")
        /\ [i \in 1..Len(Nodes[id].Services) |-> Nodes[id].Services[i].Class]
           = AttachableClasses(FieldOr(rec, "services"), "BTService")
        /\ \A i \in 1..Len(Nodes[id].Decorators) :
              IsChildOf(Nodes[id].Decorators[i].Class, "BTDecorator")
        /\ \A i \in 1..Len(Nodes[id].Services) :
              IsChildOf(Nodes[id].Services[i].Class, "BTService")
        /\ Len(kids) = Len(recs)
        /\ \A i \in 1..Len(kids) : ModifiersTyped(Nodes, kids[i], recs[i])

(***************************************************************************)
(* C21.  Modifier type safety: after a build, every sub-node attached from *)
(* a decorators list descends from the Decorator base and every sub-node   *)
(* attached from a services list from the Service base; entries without a  *)
(* class, with a class that does not resolve or with a class of the wrong  *)
(* base are skipped, the others are attached in record order, and the      *)
(* node that carries the list is built all the same.                       *)
(***************************************************************************)
ModifierTypeSafety ==
    (IsBuild /\ call.Json.valid /\ Buildable(call.Json.obj)) =>
        /\ response.success
        /\ BTGraph.Nodes[TopGraphNode].NodeInstance.Class = call.Json.obj.node_class
        /\ ModifiersTyped(BTGraph.Nodes, TopGraphNode, call.Json.obj)

\* a built record whose decorators list names a service class before a
\* decorator class: the node carries the one decorator
ModifierTypeSafetyWitness ==
    /\ BuiltFrom("client")
    /\ response.success
    /\ \E i, j \in 1..Len(FieldOr(call.Json.obj, "decorators")) :
          /\ i < j
          /\ Attachable(call.Json.obj.decorators[i], "BTService")
          /\ Attachable(call.Json.obj.decorators[j], "BTDecorator")
    /\ Len(BTGraph.Nodes[TopGraphNode].Decorators) = 1

\* the allocation a laid-out node is centred in: leafCount * 320 wide around
\* its centre x
Allocation(Nodes, id) ==
    [ left  |-> Nodes[id].NodePosX + (NodeWidth \div 2)
                - (CountSubtreeLeaves(Nodes, id) * LeafWidth) \div 2,
      right |-> Nodes[id].NodePosX + (NodeWidth \div 2)
                + (CountSubtreeLeaves(Nodes, id) * LeafWidth) \div 2 ]

\* the nodes without linked children reachable from id, id included
RECURSIVE DescendantLeaves(_, _)
DescendantLeaves(Nodes, id) ==
    IF LinkedChildren(Nodes[id]) = << >> THEN {id}
    ELSE UNION { DescendantLeaves(Nodes, k) : k \in Range(LinkedChildren(Nodes[id])) }

Least(S) == CHOOSE x \in S : \A y \in S : x <= y
Greatest(S) == CHOOSE x \in S : \A y \in S : x >= y

\* the allocations of the children of id lie side by side, left to right,
\* from the left edge of the allocation of id to its right edge, and the
\* centre of id is the midpoint of the span of its descendant leaves
CentredOverChildren(Nodes, id) ==
    LET kids == LinkedChildren(Nodes[id])
        own == Allocation(Nodes, id)
        leaves == DescendantLeaves(Nodes, id)
    IN  /\ Allocation(Nodes, kids[1]).left = own.left
        /\ \A i \in 1..(Len(kids) - 1) :
              Allocation(Nodes, kids[i]).right = Allocation(Nodes, kids[i + 1]).left
        /\ Allocation(Nodes, kids[Len(kids)]).right = own.right
        /\ \A i \in 1..Len(kids) :
              Allocation(Nodes, kids[i]).right - Allocation(Nodes, kids[i]).left
                  = CountSubtreeLeaves(Nodes, kids[i]) * LeafWidth
        /\ 2 * (Nodes[id].NodePosX + NodeWidth \div 2)
              = Least({Allocation(Nodes, l).left : l \in leaves})
                + Greatest({Allocation(Nodes, l).right : l \in leaves})

(***************************************************************************)
(* C22.  Horizontal centring: after the layout of a build, for every node  *)
(* with linked children, the root marker included, the children's          *)
(* allocations (leafCount * 320 wide each) are disjoint, run left to right *)
(* from the node's left edge and cover the node's allocation exactly, and  *)
(* the node's centre x (NodePosX + 140) is the midpoint of the span of its *)
(* descendant leaves' allocations.  The marker's allocation starts at 0.   *)
(***************************************************************************)
HorizontalCentring ==
    (IsBuild /\ response.success) =>
        /\ Allocation(BTGraph.Nodes, 1).left = 0
        /\ \A id \in 1..Len(BTGraph.Nodes) :
              LinkedChildren(BTGraph.Nodes[id]) # << >> =>
                  CentredOverChildren(BTGraph.Nodes, id)

\* a built graph whose top node has two children of which one has a child of
\* its own
HorizontalCentringWitness ==
    /\ IsBuild
    /\ response.success
    /\ Len(LinkedChildren(BTGraph.Nodes[TopGraphNode])) >= 2
    /\ \E k \in Range(LinkedChildren(BTGraph.Nodes[TopGraphNode])) :
          LinkedChildren(BTGraph.Nodes[k]) # << >>

\* the value an attribute of that type holds after the importer was handed
\* that text on a fresh node
ValueAfterImport(type, text) ==
    IF ImportText(type, text).ok THEN ImportText(type, text).v ELSE DefaultOf(type)

\* the text the rule of the wrapped-value import hands to the importer
TextForImporter(Prop, text) ==
    IF Prop.type = "Wrapped" THEN << "(DefaultValue=" >> \o text \o << ")" >> ELSE text

(***************************************************************************)
(* C23.  Wrapped-value import: the text SetBTNodeProperties hands to the   *)
(* attribute's importer is (DefaultValue=<v>) exactly when the attribute   *)
(* is a wrapper struct with an inner field named DefaultValue, and the     *)
(* decoded text <v> as it is for every other attribute: after a build,     *)
(* every attribute of the top node that its properties object names with   *)
(* a decodable value holds what the importer makes of that text.           *)
(***************************************************************************)
WrappedValueImport ==
    (IsBuild /\ response.success /\ HasField(call.Json.obj, "properties")) =>
        LET node == BTGraph.Nodes[TopGraphNode].NodeInstance
            given == call.Json.obj.properties
        IN  \A k \in DOMAIN given \cap PropertyNames[node.Class] :
                DecodeValue(given[k]).ok =>
                    node.Props[k] =
                        ValueAfterImport(PropertyByName[node.Class][k].type,
                            TextForImporter(PropertyByName[node.Class][k],
                                            DecodeValue(given[k]).text))

\* a built wait task whose wrapped WaitTime was given as a number and holds it
WrappedValueImportWitness ==
    /\ IsBuild
    /\ response.success
    /\ HasField(call.Json.obj, "properties")
    /\ "WaitTime" \in DOMAIN call.Json.obj.properties
    /\ call.Json.obj.properties.WaitTime = Num(50)
    /\ BTGraph.Nodes[TopGraphNode].NodeInstance.Class = "BTTask_Wait"
    /\ BTGraph.Nodes[TopGraphNode].NodeInstance.Props.WaitTime = 50

(***************************************************************************)
(* C24 as stated.  Complete request read: the text handed to the parser    *)
(* is the whole of what the peer sends, every segment of it, however the   *)
(* peer's sends interleave with the passes of the read loop.               *)
(***************************************************************************)
CompleteRequestRead ==
    \A c \in Conns :
        conn[c].pc \in {"queued"} \cup Processing \cup {"done"} =>
            conn[c].Data.got = conn[c].segments

\* the messages ProcessDataOnGameThread sets for a request error it detects
\* before running a script
PreExecutionFailure(message) ==
    /\ message # << >>
    /\ Head(message) \in { "Failed: 'code' field missing for type 'python'",
                           "Failed: Missing 'module' or 'function' field for type 'python_call'",
                           "Failed: Unsupported type: " }

(***************************************************************************)
(* C26 as stated.  Bridge failure flag: an envelope whose message is one   *)
(* of the pre-execution request errors (unsupported type, code missing,    *)
(* module or function missing), all starting with "Failed:", has           *)
(* success = false.                                                        *)
(***************************************************************************)
BridgeFailureFlag ==
    \A c \in Conns :
        (HasField(conn[c].Envelope, "message") /\ PreExecutionFailure(conn[c].Envelope.message))
            => ~conn[c].Envelope.success

\* a JSON value with every string in it, keys included, replaced by x
RECURSIVE PlainValue(_)
PlainValue(JsonVal) ==
    IF JsonVal.type = "String" THEN Str(<< "x" >>)
    ELSE IF JsonVal.type = "Array"
    THEN [type |-> "Array", v |-> [i \in 1..Len(JsonVal.v) |-> PlainValue(JsonVal.v[i])]]
    ELSE IF JsonVal.type = "Object"
    THEN [type |-> "Object",
          v |-> [i \in 1..Len(JsonVal.v) |->
                    [key |-> << "x" >>, value |-> PlainValue(JsonVal.v[i].value)]]]
    ELSE JsonVal

\* the request with the contents of its client strings replaced: the module,
\* the function and the arguments of a python_call, the value of an
\* unsupported type
PlainRequest(JsonObj) ==
    [f \in DOMAIN JsonObj |->
        IF f = "type"
        THEN IF JsonObj.type.v \in {<< "python" >>, << "python_call" >>}
             THEN JsonObj.type ELSE Str(<< "x" >>)
        ELSE PlainValue(JsonObj[f])]

\* the request of c selects a generated script: a python_call with module and
\* function, or an unsupported type
GeneratesScript(c) ==
    /\ conn[c].pc \in Processing \cup {"done"}
    /\ conn[c].pc # "processing"
    /\ conn[c].Script.CodeField # << >>
    /\ Deserialize(conn[c].Data).valid
    /\ Deserialize(conn[c].Data).obj.type.v # << "python" >>
    /\ conn[c].Script.CodeField # CallFieldsMissingScript

(***************************************************************************)
(* C29 as stated.  Generated-script structure is independent of string     *)
(* contents: the script generated for a request reads to Python as the     *)
(* script generated for the same request with other string contents does   *)
(* (the same code around the same string literals), every client string    *)
(* staying inside a quoted literal it cannot end.                          *)
(***************************************************************************)
ScriptStructureIndependent ==
    \A c \in Conns :
        GeneratesScript(c) =>
            PythonStructure(conn[c].Script.CodeField, "")
                = PythonStructure(ScriptFor(PlainRequest(Deserialize(conn[c].Data).obj)).CodeField, "")

(***************************************************************************)
(* C27 as stated.  No processing after Stop: once Stop() has returned, or  *)
(* the server object has been destroyed, no step reads the socket of a     *)
(* connection accepted earlier, ends its read task, or parses, executes,   *)
(* answers or closes for it.                                               *)
(***************************************************************************)
NoProcessingAfterStop ==
    [][ (~bShouldRun \/ ~TcpServer) =>
            \A c \in Conns :
                /\ ~ReadTaskActs(c)
                /\ ~ProcessingActs(c)
                /\ conn'[c].pc = "crashed" => conn[c].pc = "crashed"
      ]_vars

\* what a script printed: its lines of category LogPython, a line break after each
RECURSIVE PythonOutput(_)
PythonOutput(lines) ==
    IF lines = << >> THEN << >>
    ELSE (IF Head(lines).Category = "LogPython" THEN Head(lines).InData \o << "\n" >> ELSE << >>)
         \o PythonOutput(Tail(lines))

(***************************************************************************)
(* C28.  Log capture isolation: LogCapture is registered with the global   *)
(* log exactly while one request's script is being executed, and never for *)
(* two requests at once; its buffer is empty when an execution starts; and *)
(* the result of every envelope is made of the LogPython lines emitted     *)
(* during that request's own execution and of nothing else.                *)
(***************************************************************************)
LogCaptureIsolation ==
    /\ GLogDevices <=> \E c \in Conns : conn[c].pc = "executing"
    /\ Cardinality({c \in Conns : conn[c].pc = "executing"}) <= 1
    /\ GLogDevices => LogCapture = << >>
    /\ \A c \in Conns :
          HasField(conn[c].Envelope, "result") =>
              conn[c].Envelope.result
                  = ResultText(TrimStartAndEnd(PythonOutput(conn[c].Emitted)))

\* two answered requests whose scripts both printed: the first a traceback,
\* the second, run while lines of another category were logged, its JSON only
LogCaptureIsolationWitness ==
    \E c, d \in Conns :
        /\ conn[c].pc = "done"
        /\ conn[c].Emitted # << >>
        /\ conn[c].Emitted[1].InData = << "Traceback" >>
        /\ conn[d].pc = "sending"
        /\ Len(conn[d].Emitted) = 2
        /\ conn[d].Emitted[1].Category = "LogTemp"
        /\ conn[d].Envelope.result = << "{", "\"success\": true", "}" >>
        /\ LogCapture = << "{", "\"success\": true", "}", "\n" >>

\* the bridge with its worker threads and the game thread scheduled fairly:
\* a task that can take a step eventually takes one.  Nothing is assumed of
\* the clients or of ShutdownModule.
FairBridgeSpec ==
    /\ BridgeSpec
    /\ WF_vars(HasPendingData)
    /\ WF_vars(Recv)
    /\ WF_vars(PostToGameThread)
    /\ WF_vars(EnterProcessData)
    /\ WF_vars(ProcessData)
    /\ WF_vars(ExecPythonCommand)
    /\ WF_vars(Send)
    /\ WF_vars(CloseSocket)
    /\ WF_vars(DestroySocket)

(***************************************************************************)
(* C25 as stated.  Every accepted connection is eventually answered and    *)
(* closed: under fair scheduling of the worker and the game thread the     *)
(* read loop ends whatever the peer does, ProcessDataOnGameThread is       *)
(* reached, and the socket is closed and destroyed.                        *)
(***************************************************************************)
EveryConnectionAnswered ==
    \A c \in Conns :
        (conn[c].pc = "reading") ~> (conn[c].Closes = 1 /\ conn[c].Destroys = 1)

====
